---- MODULE Spec2Model ----
(***************************************************************************)
(* mom: the per-channel run orchestrator of packages/mom.                  *)
(*                                                                         *)
(* The model follows packages/mom/src/main.ts (the channel state registry, *)
(* handler.isRunning, handler.handleStop, handler.handleEvent) and the     *)
(* oauth functions handleEvent calls (startLogin, hasPendingAuth,          *)
(* completeLogin, removeCredentials, isLoggedIn).                          *)
(*                                                                         *)
(* JavaScript runs every handler to its next `await` without interruption, *)
(* so one action of the model is the code between two suspension points:   *)
(* an event's dispatch runs handleEvent up to its first await, and every   *)
(* later action is the return (or the rejection) of the call a handler is  *)
(* suspended on, followed by the code up to the next await.                *)
(***************************************************************************)
EXTENDS Integers, Sequences, FiniteSets, TLC

(***************************************************************************)
(* Bounds of the model.                                                    *)
(***************************************************************************)
\* events (messages and stop requests) the transport delivers in one behaviour
MaxEvents == 3
\* events delivered in one behaviour of the command specification
MaxCmdEvents == 2

(***************************************************************************)
(* Texts are sequences of characters, so that trim, includes and           *)
(* startsWith are computed the way String.prototype computes them.         *)
(***************************************************************************)
Whitespace == {" ", "\n", "\t"}

RECURSIVE trimStart(_)
trimStart(s) ==
    IF s # << >> /\ Head(s) \in Whitespace THEN trimStart(Tail(s)) ELSE s

RECURSIVE trimEnd(_)
trimEnd(s) ==
    IF s # << >> /\ s[Len(s)] \in Whitespace
    THEN trimEnd(SubSeq(s, 1, Len(s) - 1))
    ELSE s

\* String.prototype.trim
trim(s) == trimEnd(trimStart(s))

\* String.prototype.includes, for a one-character needle
includes(s, ch) == \E i \in 1..Len(s) : s[i] = ch

\* String.prototype.startsWith, for a one-character prefix
startsWith(s, ch) == s # << >> /\ s[1] = ch

\* the command texts handleEvent compares with
TxtLogin == <<"/", "l", "o", "g", "i", "n">>
TxtAnthropic == <<" ", "a", "n", "t", "h", "r", "o", "p", "i", "c">>
TxtLoginAnthropic == TxtLogin \o TxtAnthropic
TxtLogout == <<"/", "l", "o", "g", "o", "u", "t">>
TxtLogoutAnthropic == TxtLogout \o TxtAnthropic
TxtAuthStatus == <<"/", "a", "u", "t", "h", "-", "s", "t", "a", "t", "u", "s">>
TxtAuth == <<"/", "a", "u", "t", "h">>

\* main.ts line 292
IsLoginCommand(text) == text = TxtLogin \/ text = TxtLoginAnthropic

\* main.ts line 306
IsLogoutCommand(text) == text = TxtLogout \/ text = TxtLogoutAnthropic

\* a command test that accepts trailing arguments
IsAuthStatusCommandPrefix(text) ==
    \/ text = TxtAuthStatus
    \/ Len(text) >= Len(TxtAuth) /\ SubSeq(text, 1, Len(TxtAuth)) = TxtAuth

\* main.ts line 313
IsAuthStatusCommand(text) == text = TxtAuthStatus \/ text = TxtAuth

\* one of the three command branches of handleEvent is taken
IsCommand(text) ==
    IsLoginCommand(text) \/ IsLogoutCommand(text) \/ IsAuthStatusCommand(text)

\* a test that takes every text without the command prefix for a code
LooksLikeAuthCodeNoSeparator(text) == ~startsWith(text, "/")

\* main.ts line 326, the two tests on the text
LooksLikeAuthCode(text) == includes(text, "#") /\ ~startsWith(text, "/")


(***************************************************************************)
(* State.                                                                  *)
(***************************************************************************)
Channels == {"D1", "D2"}

VARIABLES
    now,            \* Date.now(), in milliseconds
    envKey,         \* ANTHROPIC_OAUTH_TOKEN or ANTHROPIC_API_KEY is set
    credFile,       \* <workingDir>/.mom/oauth.json
    channelStates,  \* the channelStates map of main.ts
    pendingAuths,   \* the pendingAuths map of the oauth functions
    nextVerifier,   \* the PKCE verifiers drawn so far
    runner,         \* per channel: the agent call and the abort signal
    lastSync,       \* per channel: the ts the log sync was last invoked with
    msgs,           \* the messages the bot has posted; a message's ts is its index
    tasks,          \* the handler invocations, one per delivered event
    nextEv,         \* events delivered so far
    loginFlows,     \* auth.ts: the handleLogin invocations, their waiters and timers
    pendingLogins,  \* auth.ts: the pendingLogins map (channel to flow, 0: no entry)
    ctx,            \* one adapter made by createSlackContext
    win,            \* one selection of a roving window: its inputs and its progress
    logFile,        \* per channel: the timestamp ids of the entries of log.jsonl
    context         \* per channel: the timestamp ids of the entries synced to the context

vars ==
    <<now, envKey, credFile, channelStates, pendingAuths, nextVerifier,
      runner, lastSync, msgs, tasks, nextEv, loginFlows, pendingLogins, ctx,
      win, logFile, context>>

\* const AUTH_TIMEOUT_MS = 10 * 60 * 1000
AUTH_TIMEOUT_MS == 10 * 60 * 1000

\* the 5 minute buffer subtracted from a credential's lifetime
EXPIRY_BUFFER_MS == 5 * 60 * 1000

\* no entry in channelStates
NoState ==
    [exists |-> FALSE, running |-> FALSE, stopRequested |-> FALSE,
     stopMessageTs |-> 0]

\* the state getState creates on first access (stopMessageTs 0: undefined)
NewState ==
    [exists |-> TRUE, running |-> FALSE, stopRequested |-> FALSE,
     stopMessageTs |-> 0]

\* a getState that makes a new session on every call
getStateFresh(states, c) == [states EXCEPT ![c] = NewState]

\* getState(channelId): the states map after the call
getState(states, c) ==
    IF states[c].exists THEN states ELSE [states EXCEPT ![c] = NewState]

\* an isRunning that never reports a run
isRunningNever(c) == FALSE

\* handler.isRunning: state?.running ?? false
isRunning(c) == channelStates[c].exists /\ channelStates[c].running

\* no entry in pendingAuths
NoPending == [exists |-> FALSE, verifier |-> 0, challenge |-> 0, createdAt |-> 0]

\* oauth.json: absent, "{}", or {anthropic: credentials}
NoFile == [file |-> "absent", refresh |-> 0, access |-> 0, expires |-> 0]
EmptyFile == [file |-> "empty", refresh |-> 0, access |-> 0, expires |-> 0]
CredFile(refresh, access, expires) ==
    [file |-> "oauth", refresh |-> refresh, access |-> access, expires |-> expires]

\* loadCredentials(workingDir) !== null
isLoggedIn(file) == file.file = "oauth"

\* a logout that deletes the file
removeCredentialsUnlinks(file) == NoFile

\* removeCredentials: overwrite an existing file with "{}"
removeCredentials(file) == IF file.file = "absent" THEN file ELSE EmptyFile

\* the runner of a channel: is runner.run in flight, was abort() signalled
IdleRunner == [inFlight |-> FALSE, abortSignalled |-> FALSE]

\* a message of the channel
Msg(c, text) == [ch |-> c, text |-> text, url |-> 0, detail |-> ""]

\* a handler invocation; pc is the await it is suspended on
NoTask ==
    [pc |-> "unused", kind |-> "none", ch |-> "none", text |-> << >>,
     ts |-> 0, messageTs |-> 0, result |-> "none", raised |-> "none",
     stopped |-> "none", stoppedTs |-> 0, verifier |-> 0, detail |-> "",
     outcome |-> "none", refresh |-> 0, token |-> 0,
     error |-> [text |-> "", body |-> ""]]

\* what is kept of an invocation that has ended
Ended(t, outcome) ==
    [t EXCEPT !.pc = "done", !.text = << >>, !.messageTs = 0,
              !.verifier = 0, !.detail = "", !.outcome = outcome]

\* the awaits of handleEvent inside the run (between lines 344 and 390)
RunPcs ==
    {"setTyping", "setWorking", "agent", "setWorkingDone", "stoppedEdit",
     "stoppedPost"}

\* the awaits of handleEvent outside the run
CommandPcs == {"loginPost", "logoutPost", "statusPost"}
AuthCodePcs == {"exchange", "loginResultPost"}

\* the awaits of handleStop
StopPcs == {"stoppingPost", "nothingPost"}

\* createSlackContext: the adapter's locals when it is made; ops are the
\* operations invoked on it, each a link of the updatePromise chain; calls are
\* the transport calls its operations have made
NewContext ==
    [messageTs |-> 0, accumulatedText |-> << >>, isWorking |-> TRUE,
     updatePromise |-> 0, threadMessageTs |-> << >>, ops |-> << >>, calls |-> << >>]

\* no window is being selected
NoWindow ==
    [pc |-> "none", lines |-> << >>,
     config |-> [maxInputTokens |-> 0, reservedForOutput |-> 0,
                 systemPromptTokens |-> 0, memoryTokens |-> 0, toolSchemaTokens |-> 0],
     available |-> 0, pos |-> 0, selectedLines |-> << >>, totalTokens |-> 0,
     truncated |-> FALSE]

InFlight(t) == tasks[t].pc \in RunPcs \cup CommandPcs \cup AuthCodePcs \cup StopPcs

MaxStopEvents == 4

\* the handler calls: one for each event of the longest behaviour
MaxTasks == IF MaxStopEvents > MaxEvents THEN MaxStopEvents ELSE MaxEvents

TaskIds == 1..MaxTasks

Init ==
    /\ now = 0
    /\ envKey \in BOOLEAN
    /\ credFile = NoFile
    /\ channelStates = [c \in Channels |-> NoState]
    /\ pendingAuths = [c \in Channels |-> NoPending]
    /\ nextVerifier = 1
    /\ runner = [c \in Channels |-> IdleRunner]
    /\ lastSync = [c \in Channels |-> 0]
    /\ msgs = << >>
    /\ tasks = [t \in TaskIds |-> NoTask]
    /\ nextEv = 0
    /\ loginFlows = << >>
    /\ pendingLogins = [c \in Channels |-> 0]
    /\ ctx = NewContext
    /\ win = NoWindow
    /\ logFile = [c \in Channels |-> {}]
    /\ context = [c \in Channels |-> {}]


(***************************************************************************)
(* The oauth functions handleEvent calls.                                  *)
(***************************************************************************)
\* entries that never expire on access
ExpiredNever(p, t) == FALSE

\* Date.now() - pending.createdAt > AUTH_TIMEOUT_MS
Expired(p, t) == t - p.createdAt > AUTH_TIMEOUT_MS

\* generatePKCE: the challenge is a digest of the verifier
challengeOf(v) == 1000 + v

\* a startLogin that purges nothing
startLoginKeepsExpired(pend, c, t, v) ==
    [pend EXCEPT ![c] = [exists |-> TRUE, verifier |-> v, challenge |-> challengeOf(v),
                         createdAt |-> t]]

\* startLogin: purge every expired entry, then set the channel's entry
startLogin(pend, c, t, v) ==
    [q \in Channels |->
        IF q = c
        THEN [exists |-> TRUE, verifier |-> v, challenge |-> challengeOf(v),
              createdAt |-> t]
        ELSE IF pend[q].exists /\ Expired(pend[q], t) THEN NoPending ELSE pend[q]]

\* a pending test that ignores the age of the entry
hasPendingAuthUnexpiring(pend, c, t) == pend[c].exists

\* hasPendingAuth: its result
hasPendingAuth(pend, c, t) == pend[c].exists /\ ~Expired(pend[c], t)

\* hasPendingAuth: the map after the call (an expired entry is deleted)
afterHasPendingAuth(pend, c, t) ==
    IF pend[c].exists /\ Expired(pend[c], t)
    THEN [pend EXCEPT ![c] = NoPending]
    ELSE pend

\* completeLogin up to its fetch: which branch is taken
completeLoginBranch(pend, c, t) ==
    IF ~pend[c].exists THEN "noPending"
    ELSE IF Expired(pend[c], t) THEN "expired"
    ELSE "fetch"

\* a completeLogin that leaves the entry in the map
deletePendingKeeps(pend, c) == pend

\* pendingAuths.delete(channelId)
deletePending(pend, c) == [pend EXCEPT ![c] = NoPending]

\* the token endpoint's answers to a code exchange
TokenResponses ==
    {[kind |-> "ok", access |-> 2, refresh |-> 3, expires_in |-> 900, body |-> ""],
     [kind |-> "http400", access |-> 0, refresh |-> 0, expires_in |-> 0,
      body |-> "invalid_grant"],
     [kind |-> "networkError", access |-> 0, refresh |-> 0, expires_in |-> 0,
      body |-> ""]}

\* an expiry without the safety buffer
expiresAtNoBuffer(t, expires_in) == t + expires_in * 1000

\* Date.now() + tokenData.expires_in * 1000 - 5 * 60 * 1000
expiresAt(t, expires_in) == t + expires_in * 1000 - EXPIRY_BUFFER_MS

(***************************************************************************)
(* The channel state updates of handleStop and handleEvent.                *)
(***************************************************************************)
\* handleStop: state?.running
stopFindsRun(states, c) == states[c].exists /\ states[c].running

\* a stop that force-ends the run
requestStopEndsRun(s) == [s EXCEPT !.stopRequested = TRUE, !.running = FALSE]

\* handleStop: state.stopRequested = true
requestStop(s) == [s EXCEPT !.stopRequested = TRUE]

\* a stop that leaves the agent call alone
abortNotSignalled(r) == r

\* handleStop: state.runner.abort()
abort(r) == [r EXCEPT !.abortSignalled = TRUE]

\* handleStop: state.stopMessageTs = ts
saveStopMessage(s, ts) == [s EXCEPT !.stopMessageTs = ts]

\* a stop that looks the channel up with getState
stopWithoutRunCreates(states, c) == getState(states, c)

\* handleStop when nothing runs: the states map is only read (channelStates.get)
stopWithoutRun(states, c) == states

\* a start of run gated on a stored or an environment credential
startsRunWithCredential(text, hasPending, loggedIn, hasEnv) ==
    /\ ~IsCommand(text)
    /\ ~(hasPending /\ LooksLikeAuthCode(text))
    /\ (loggedIn \/ hasEnv)

\* handleEvent: does the text reach "Start run" (none of the returns before it);
\* neither oauth.isLoggedIn(workingDir) nor the environment keys are consulted
startsRun(text, hasPending, loggedIn, hasEnv) ==
    ~IsCommand(text) /\ ~(hasPending /\ LooksLikeAuthCode(text))

\* a start of run that keeps the previous run's stop request
startRunKeepsStop(s) == [s EXCEPT !.running = TRUE]

\* handleEvent: state.running = true; state.stopRequested = false
startRun(s) == [s EXCEPT !.running = TRUE, !.stopRequested = FALSE]

\* an end of run that leaves the flag set
endRunForgotten(s) == s

\* handleEvent: finally { state.running = false }
endRun(s) == [s EXCEPT !.running = FALSE]

\* a terminal message for every aborted result
shouldWriteStoppedAnyAbort(result, s) == result = "aborted"

\* handleEvent: result.stopReason === "aborted" && state.stopRequested
shouldWriteStopped(result, s) == result = "aborted" /\ s.stopRequested

\* handleEvent: edit the acknowledgement if state.stopMessageTs, else post
stoppedWrite(s) == IF s.stopMessageTs # 0 THEN "edit" ELSE "post"

\* handleEvent: state.stopMessageTs = undefined
clearStopMessage(s) == [s EXCEPT !.stopMessageTs = 0]

\* handleEvent: catch (err) { log.logWarning(...) }: the channel's messages after it
catchRunError(m, c) == m

\* a catch block that rethrows
runErrorRethrown == "threw"

\* handleEvent: how a call that raised inside the try block ends for the caller
runErrorOutcome == "returned"

\* the stop reasons runner.run reports
StopReasons == {"completed", "aborted", "error"}

\* slack.updateMessage(channel, ts, text)
updateMessage(m, ts, text) == [m EXCEPT ![ts].text = text]

\* the adapter's texts: the buffer setTyping sets, and the working indicator
Thinking == "_Thinking_"
ThinkingWorking == "_Thinking_ ..."


(***************************************************************************)
(* handler.handleStop (main.ts 270-280).                                   *)
(***************************************************************************)
\* handleStop up to its await of slack.postMessage
handleStop(id, c) ==
    IF stopFindsRun(channelStates, c)
    THEN /\ channelStates' = [channelStates EXCEPT ![c] = requestStop(@)]
         /\ runner' = [runner EXCEPT ![c] = abort(@)]
         /\ tasks' = [tasks EXCEPT ![id] =
                [NoTask EXCEPT !.pc = "stoppingPost", !.kind = "stop", !.ch = c,
                               !.ts = id, !.result = "stopping"]]
    ELSE /\ channelStates' = stopWithoutRun(channelStates, c)
         /\ runner' = runner
         /\ tasks' = [tasks EXCEPT ![id] =
                [NoTask EXCEPT !.pc = "nothingPost", !.kind = "stop", !.ch = c,
                               !.ts = id, !.result = "nothing"]]

\* the transport delivers a stop request: the handler is called at once
DispatchStop(c, cap) ==
    /\ nextEv < cap
    /\ nextEv' = nextEv + 1
    /\ handleStop(nextEv + 1, c)
    /\ UNCHANGED <<loginFlows, pendingLogins, ctx, now, envKey, win, logFile, credFile, pendingAuths, nextVerifier, lastSync, context, msgs>>

\* slack.postMessage returns to handleStop (the call keeps the ts it was
\* given: const ts = await slack.postMessage(...))
StopPostReturns(id) ==
    LET t == tasks[id] IN
    /\ t.pc \in StopPcs
    /\ IF t.pc = "stoppingPost"
       THEN /\ msgs' = Append(msgs, Msg(t.ch, "_Stopping..._"))
            /\ channelStates' =
                 [channelStates EXCEPT ![t.ch] = saveStopMessage(@, Len(msgs) + 1)]
       ELSE /\ msgs' = Append(msgs, Msg(t.ch, "_Nothing running_"))
            /\ channelStates' = channelStates
    /\ tasks' = [tasks EXCEPT ![id] =
           [Ended(t, "returned") EXCEPT !.messageTs =
               IF t.pc = "stoppingPost" THEN Len(msgs) + 1 ELSE 0]]
    /\ UNCHANGED <<loginFlows, pendingLogins, ctx, now, envKey, win, logFile, credFile, pendingAuths, nextVerifier, runner,
                   lastSync, context, nextEv>>

(***************************************************************************)
(* handler.handleEvent (main.ts 282-392).                                  *)
(***************************************************************************)
\* catch and finally of the run: the warning is logged, running is reset
RunRaised(id, where, states, m) ==
    LET t == tasks[id] IN
    /\ msgs' = catchRunError(m, t.ch)
    /\ channelStates' = [states EXCEPT ![t.ch] = endRun(@)]
    /\ tasks' = [tasks EXCEPT ![id] = Ended([t EXCEPT !.raised = where], runErrorOutcome)]

\* handleEvent up to its first await
\* a sync that takes the entries up to and including the triggering event's
syncCursorNext(ts) == ts + 1

\* syncLogToContext(channelDir, event.ts): the second argument of the call
syncCursor(ts) == ts

\* syncLogToContext: the entries of the log that the context lacks and that
\* are older than excludeTs are added to the context
syncLogToContext(entries, synced, excludeTs) ==
    synced \cup {e \in entries : e < excludeTs}

handleEvent(id, c, raw, syncOk) ==
    LET states1 == getState(channelStates, c)
        text == trim(raw)
        pend1 == afterHasPendingAuth(pendingAuths, c, now)
        has == hasPendingAuth(pendingAuths, c, now)
        t0 == [NoTask EXCEPT !.kind = "message", !.ch = c, !.text = raw, !.ts = id]
    IN
    IF IsLoginCommand(text)
    THEN /\ pendingAuths' = startLogin(pendingAuths, c, now, nextVerifier)
         /\ nextVerifier' = nextVerifier + 1
         /\ channelStates' = states1
         /\ tasks' = [tasks EXCEPT ![id] =
                [t0 EXCEPT !.pc = "loginPost", !.verifier = nextVerifier]]
         /\ UNCHANGED <<credFile, lastSync, context, msgs>>
    ELSE IF IsLogoutCommand(text)
    THEN /\ credFile' = removeCredentials(credFile)
         /\ channelStates' = states1
         /\ tasks' = [tasks EXCEPT ![id] = [t0 EXCEPT !.pc = "logoutPost"]]
         /\ UNCHANGED <<pendingAuths, nextVerifier, lastSync, context, msgs>>
    ELSE IF IsAuthStatusCommand(text)
    THEN /\ channelStates' = states1
         /\ tasks' = [tasks EXCEPT ![id] =
                [t0 EXCEPT !.pc = "statusPost",
                           !.detail = IF isLoggedIn(credFile) THEN "Logged in via OAuth"
                                      ELSE IF envKey THEN "Using API key from environment"
                                      ELSE "Not authenticated"]]
         /\ UNCHANGED <<credFile, pendingAuths, nextVerifier, lastSync, context, msgs>>
    ELSE IF ~startsRun(text, has, isLoggedIn(credFile), envKey)
    THEN \* completeLogin(channel, text, workingDir) up to its fetch
         /\ channelStates' = states1
         /\ IF completeLoginBranch(pend1, c, now) = "fetch"
            THEN /\ pendingAuths' = pend1
                 /\ tasks' = [tasks EXCEPT ![id] =
                        [t0 EXCEPT !.pc = "exchange", !.verifier = pend1[c].verifier]]
            ELSE /\ pendingAuths' = deletePending(pend1, c)
                 /\ tasks' = [tasks EXCEPT ![id] =
                        [t0 EXCEPT !.pc = "loginResultPost",
                                   !.detail = completeLoginBranch(pend1, c, now)]]
         /\ UNCHANGED <<credFile, nextVerifier, lastSync, context, msgs>>
    ELSE \* Start run; the log sync is a synchronous call
         /\ pendingAuths' = pend1
         /\ lastSync' = [lastSync EXCEPT ![c] = syncCursor(id)]
         /\ context' = IF syncOk
                       THEN [context EXCEPT ![c] =
                               syncLogToContext(logFile[c], @, syncCursor(id))]
                       ELSE context
         /\ IF syncOk
            THEN /\ channelStates' = [states1 EXCEPT ![c] = startRun(@)]
                 /\ tasks' = [tasks EXCEPT ![id] = [t0 EXCEPT !.pc = "setTyping"]]
                 /\ msgs' = msgs
            ELSE /\ msgs' = catchRunError(msgs, c)
                 /\ channelStates' = [states1 EXCEPT ![c] = endRun(startRun(@))]
                 /\ tasks' = [tasks EXCEPT ![id] =
                        Ended([t0 EXCEPT !.raised = "sync"], runErrorOutcome)]
         /\ UNCHANGED <<credFile, nextVerifier>>


\* slack.postMessage returns to a command branch of handleEvent, which returns
CommandPostReturns(id) ==
    LET t == tasks[id] IN
    /\ t.pc \in CommandPcs \cup {"loginResultPost"}
    /\ msgs' = Append(msgs,
          CASE t.pc = "loginPost" ->
                 [Msg(t.ch, "Login to Anthropic") EXCEPT !.url = challengeOf(t.verifier)]
            [] t.pc = "logoutPost" -> Msg(t.ch, "Logged out of Anthropic")
            [] t.pc = "statusPost" -> Msg(t.ch, t.detail)
            [] t.pc = "loginResultPost" ->
                 IF t.detail = "success"
                 THEN Msg(t.ch, "Successfully logged in to Anthropic!")
                 ELSE [Msg(t.ch, "Login failed") EXCEPT !.detail = t.detail])
    /\ tasks' = [tasks EXCEPT ![id] = Ended(t, "returned")]
    /\ UNCHANGED <<loginFlows, pendingLogins, ctx, now, envKey, win, logFile, credFile, channelStates, pendingAuths, nextVerifier,
                   runner, lastSync, context, nextEv>>

\* completeLogin: the token endpoint answers (fetch and the reading of its body)
ExchangeReturns(id, resp) ==
    LET t == tasks[id] IN
    /\ t.pc = "exchange"
    /\ pendingAuths' = deletePending(pendingAuths, t.ch)
    /\ credFile' = IF resp.kind = "ok"
                   THEN CredFile(resp.refresh, resp.access, expiresAt(now, resp.expires_in))
                   ELSE credFile
    /\ tasks' = [tasks EXCEPT ![id] =
           [t EXCEPT !.pc = "loginResultPost",
                     !.detail = CASE resp.kind = "ok" -> "success"
                                  [] resp.kind = "http400" -> resp.body
                                  [] OTHER -> "fetch failed"]]
    /\ UNCHANGED <<loginFlows, pendingLogins, ctx, now, envKey, win, logFile, channelStates, nextVerifier, runner, lastSync, context,
                   msgs, nextEv>>

\* ctx.setTyping(true): the post of the primary message returns or raises;
\* then ctx.setWorking(true) re-renders it
SetTypingReturns(id, ok) ==
    LET t == tasks[id] IN
    /\ t.pc = "setTyping"
    /\ IF ok
       THEN /\ msgs' = Append(msgs, Msg(t.ch, ThinkingWorking))
            /\ tasks' = [tasks EXCEPT ![id] =
                   [t EXCEPT !.pc = "setWorking", !.messageTs = Len(msgs) + 1]]
            /\ channelStates' = channelStates
       ELSE RunRaised(id, "setTyping", channelStates, msgs)
    /\ UNCHANGED <<loginFlows, pendingLogins, ctx, now, envKey, win, logFile, credFile, pendingAuths, nextVerifier, runner,
                   lastSync, context, nextEv>>

\* ctx.setWorking(true): the update returns or raises; then runner.run is called
SetWorkingReturns(id, ok) ==
    LET t == tasks[id] IN
    /\ t.pc = "setWorking"
    /\ IF ok
       THEN /\ msgs' = updateMessage(msgs, t.messageTs, ThinkingWorking)
            /\ tasks' = [tasks EXCEPT ![id] = [t EXCEPT !.pc = "agent"]]
            /\ runner' = [runner EXCEPT ![t.ch] =
                   [inFlight |-> TRUE, abortSignalled |-> FALSE]]
            /\ channelStates' = channelStates
       ELSE /\ RunRaised(id, "setWorking", channelStates, msgs)
            /\ runner' = runner
    /\ UNCHANGED <<loginFlows, pendingLogins, ctx, now, envKey, win, logFile, credFile, pendingAuths, nextVerifier, lastSync, context, nextEv>>

\* runner.run returns a result or throws; then ctx.setWorking(false)
AgentReturns(id, r) ==
    LET t == tasks[id] IN
    /\ t.pc = "agent"
    /\ runner' = [runner EXCEPT ![t.ch].inFlight = FALSE]
    /\ IF r \in StopReasons
       THEN /\ tasks' = [tasks EXCEPT ![id] =
                   [t EXCEPT !.pc = "setWorkingDone", !.result = r]]
            /\ UNCHANGED <<channelStates, msgs>>
       ELSE RunRaised(id, "agent", channelStates, msgs)
    /\ UNCHANGED <<loginFlows, pendingLogins, ctx, now, envKey, win, logFile, credFile, pendingAuths, nextVerifier, lastSync, context, nextEv>>

\* ctx.setWorking(false) returns or raises; then the terminal message is decided
SetWorkingDoneReturns(id, ok) ==
    LET t == tasks[id]
        s == channelStates[t.ch]
        m == updateMessage(msgs, t.messageTs, Thinking)
    IN
    /\ t.pc = "setWorkingDone"
    /\ IF ~ok
       THEN RunRaised(id, "setWorkingDone", channelStates, msgs)
       ELSE IF shouldWriteStopped(t.result, s)
       THEN /\ msgs' = m
            /\ channelStates' = channelStates
            /\ tasks' = [tasks EXCEPT ![id] =
                   [t EXCEPT !.pc = IF stoppedWrite(s) = "edit"
                                    THEN "stoppedEdit" ELSE "stoppedPost",
                             !.stopped = stoppedWrite(s),
                             !.stoppedTs = s.stopMessageTs]]
       ELSE /\ msgs' = m
            /\ channelStates' = [channelStates EXCEPT ![t.ch] = endRun(@)]
            /\ tasks' = [tasks EXCEPT ![id] = Ended(t, "returned")]
    /\ UNCHANGED <<loginFlows, pendingLogins, ctx, now, envKey, win, logFile, credFile, pendingAuths, nextVerifier, runner,
                   lastSync, context, nextEv>>

\* the write of "_Stopped_" returns or raises; the run ends
StoppedWriteReturns(id, ok) ==
    LET t == tasks[id] IN
    /\ t.pc \in {"stoppedEdit", "stoppedPost"}
    /\ IF ~ok
       THEN RunRaised(id, "stoppedWrite", channelStates, msgs)
       ELSE IF t.pc = "stoppedEdit"
       THEN /\ msgs' = updateMessage(msgs, t.stoppedTs, "_Stopped_")
            /\ channelStates' =
                 [channelStates EXCEPT ![t.ch] = endRun(clearStopMessage(@))]
            /\ tasks' = [tasks EXCEPT ![id] = Ended(t, "returned")]
       ELSE /\ msgs' = Append(msgs, Msg(t.ch, "_Stopped_"))
            /\ channelStates' = [channelStates EXCEPT ![t.ch] = endRun(@)]
            /\ tasks' = [tasks EXCEPT ![id] = Ended(t, "returned")]
    /\ UNCHANGED <<loginFlows, pendingLogins, ctx, now, envKey, win, logFile, credFile, pendingAuths, nextVerifier, runner,
                   lastSync, context, nextEv>>

(***************************************************************************)
(* The transport's dispatch of an inbound message, and the clock.          *)
(***************************************************************************)
\* a message that arrives while the channel runs goes to the command path only
dispatchDrops(c, raw) == isRunning(c) /\ ~IsCommand(trim(raw))

DispatchMessage(c, raw, syncOk, cap) ==
    /\ nextEv < cap
    /\ nextEv' = nextEv + 1
    /\ IF dispatchDrops(c, raw)
       THEN /\ tasks' = [tasks EXCEPT ![nextEv + 1] =
                   [NoTask EXCEPT !.pc = "ignored", !.kind = "message", !.ch = c,
                                  !.text = raw, !.ts = nextEv + 1]]
            /\ UNCHANGED <<credFile, channelStates, pendingAuths, nextVerifier,
                           lastSync, context, msgs>>
       ELSE handleEvent(nextEv + 1, c, raw, syncOk)
    /\ UNCHANGED <<loginFlows, pendingLogins, ctx, now, envKey, win, logFile, runner>>

(***************************************************************************)
(* The inbound texts.                                                      *)
(***************************************************************************)
TxtHello == <<"h", "i">>
TxtCode == <<"c", "#", "s">>
TxtSlashCode == <<"/", "c", "#", "s">>
TxtLoginUpper == <<"/", "L", "o", "g", "i", "n">>
TxtAuthExtra == TxtAuth \o <<" ", "x">>
TxtHelp == <<"/", "h", "e", "l", "p">>
TxtAuthPadded == <<" ">> \o TxtAuth \o <<"\n">>

\* the texts of the run lifecycle specification: one for each branch of handleEvent
RunTexts == {TxtHello, TxtCode, TxtLogin, TxtLogout, TxtAuth}

\* the texts of the command specification: every command and its near misses
Texts ==
    {TxtLogin, TxtLoginAnthropic, TxtLogout, TxtLogoutAnthropic, TxtAuthStatus,
     TxtAuth, TxtHello, TxtCode, TxtSlashCode, TxtLoginUpper, TxtAuthExtra,
     TxtHelp, TxtAuthPadded}

RunChannels == {"D1"}

\* the returns of the calls the handlers are suspended on
Returns ==
    \/ \E id \in TaskIds : StopPostReturns(id)
    \/ \E id \in TaskIds : CommandPostReturns(id)
    \/ \E id \in TaskIds, resp \in TokenResponses : ExchangeReturns(id, resp)
    \/ \E id \in TaskIds, ok \in BOOLEAN : SetTypingReturns(id, ok)
    \/ \E id \in TaskIds, ok \in BOOLEAN : SetWorkingReturns(id, ok)
    \/ \E id \in TaskIds, r \in StopReasons \cup {"throw"} : AgentReturns(id, r)
    \/ \E id \in TaskIds, ok \in BOOLEAN : SetWorkingDoneReturns(id, ok)
    \/ \E id \in TaskIds, ok \in BOOLEAN : StoppedWriteReturns(id, ok)

\* the run lifecycle: messages and stop requests on one channel
Next ==
    \/ \E c \in RunChannels, raw \in RunTexts, syncOk \in BOOLEAN :
          DispatchMessage(c, raw, syncOk, MaxEvents)
    \/ \E c \in RunChannels : DispatchStop(c, MaxEvents)
    \/ Returns

Spec == Init /\ [][Next]_vars

\* the command surface: every text, fewer events
NextCmd ==
    \/ \E c \in RunChannels, raw \in Texts, syncOk \in BOOLEAN :
          DispatchMessage(c, raw, syncOk, MaxCmdEvents)
    \/ \E c \in RunChannels : DispatchStop(c, MaxCmdEvents)
    \/ Returns

SpecCmd == Init /\ [][NextCmd]_vars

\* runs and stop requests only, over more events: every call returns, the
\* agent completes or is aborted
NextStop ==
    \/ \E c \in RunChannels : DispatchMessage(c, TxtHello, TRUE, MaxStopEvents)
    \/ \E c \in RunChannels : DispatchStop(c, MaxStopEvents)
    \/ \E id \in TaskIds : StopPostReturns(id)
    \/ \E id \in TaskIds : SetTypingReturns(id, TRUE)
    \/ \E id \in TaskIds : SetWorkingReturns(id, TRUE)
    \/ \E id \in TaskIds, r \in {"completed", "aborted"} : AgentReturns(id, r)
    \/ \E id \in TaskIds : SetWorkingDoneReturns(id, TRUE)
    \/ \E id \in TaskIds : StoppedWriteReturns(id, TRUE)

SpecStop == Init /\ [][NextStop]_vars


(***************************************************************************)
(* The run lifecycle.                                                      *)
(***************************************************************************)
\* the handleEvent calls of channel c that have started and not returned
EventCallsInFlight(c) ==
    {id \in TaskIds : tasks[id].kind = "message" /\ tasks[id].ch = c /\ InFlight(id)}

\* the runs of channel c between "Start run" and the finally block
RunsInFlight(c) ==
    {id \in TaskIds : tasks[id].ch = c /\ tasks[id].pc \in RunPcs}

\* C1: once every handleEvent call that started on a channel has returned
\* (the agent call completed, was aborted, or threw), running is false
C1_NoWedgedChannel ==
    \A c \in Channels :
        EventCallsInFlight(c) = {} => channelStates[c].running = FALSE

\* a run with a stop request and a run whose agent call threw have both ended
C1_Witness ==
    /\ \A id \in TaskIds : ~InFlight(id)
    /\ \E id \in TaskIds : tasks[id].kind = "message" /\ tasks[id].raised = "agent"
    /\ \E id \in TaskIds : tasks[id].kind = "stop" /\ tasks[id].result = "stopping"
    /\ channelStates["D1"].exists /\ ~channelStates["D1"].running

\* C2: at most one run is in flight per channel, and an event the dispatch
\* dropped because the channel was running never becomes a run (or anything else)
C2_SingleFlight ==
    /\ [](\A c \in Channels : Cardinality(RunsInFlight(c)) <= 1)
    /\ [][\A id \in TaskIds :
            /\ (tasks[id].pc = "ignored" => tasks'[id] = tasks[id])
            /\ (tasks'[id].pc = "ignored" /\ tasks[id].pc # "ignored"
                  => /\ RunsInFlight(tasks'[id].ch) # {}
                     /\ \A rid \in TaskIds \ {id} : tasks'[rid] = tasks[rid]
                     /\ UNCHANGED <<channelStates, lastSync, context, runner, msgs>>)]_vars

\* a message arrived while a run was in flight and was dropped
C2_Witness ==
    \E id, rid \in TaskIds :
        /\ tasks[id].pc = "ignored"
        /\ id > rid
        /\ tasks[rid].pc = "agent"
        /\ tasks[rid].ch = tasks[id].ch

\* C3: a call that raises inside a run (the log sync, an adapter call, the
\* agent call, the terminal write) ends handleEvent without an error for its
\* caller, adds no message to the channel, and leaves the channel idle
C3_RunErrorsSwallowed ==
    [][\A id \in TaskIds :
          (tasks[id].raised = "none" /\ tasks'[id].raised # "none")
            => /\ tasks'[id].pc = "done"
               /\ tasks'[id].outcome = "returned"
               /\ msgs' = msgs
               /\ channelStates'[tasks'[id].ch].running = FALSE]_vars

\* one run ended by a throwing agent call, one by a failing log sync
C3_Witness ==
    /\ \E id \in TaskIds : tasks[id].pc = "done" /\ tasks[id].raised = "agent"
    /\ \E id \in TaskIds : tasks[id].pc = "done" /\ tasks[id].raised = "sync"
    /\ ~channelStates["D1"].running


(***************************************************************************)
(* The terminal message and the stop request.                              *)
(***************************************************************************)
\* the step in which the run of invocation id ends
RunEnds(id) == tasks[id].pc \in RunPcs /\ tasks'[id].pc = "done"

\* how the terminal message is written: by an edit of the stored
\* acknowledgement when its handle exists (the handle is then cleared),
\* otherwise by a post, and by no other step
StoppedWriteRule ==
    /\ \A id \in TaskIds :
         LET c == tasks[id].ch
             ts == tasks[id].stoppedTs
         IN
         /\ (tasks[id].pc = "setWorkingDone" /\ tasks'[id].stopped # "none")
              => /\ tasks'[id].stopped =
                      (IF channelStates[c].stopMessageTs # 0 THEN "edit" ELSE "post")
                 /\ tasks'[id].stoppedTs = channelStates[c].stopMessageTs
                 /\ tasks'[id].pc \in {"stoppedEdit", "stoppedPost"}
         /\ (tasks[id].pc # "setWorkingDone" => tasks'[id].stopped = tasks[id].stopped)
         /\ (RunEnds(id) /\ tasks[id].stopped = "edit" /\ tasks'[id].raised = "none")
              => /\ msgs[ts].text = "_Stopping..._"
                 /\ msgs' = [msgs EXCEPT ![ts].text = "_Stopped_"]
                 /\ channelStates'[c].stopMessageTs = 0
         /\ (RunEnds(id) /\ tasks[id].stopped = "post" /\ tasks'[id].raised = "none")
              => /\ msgs' = Append(msgs, Msg(c, "_Stopped_"))
                 /\ channelStates'[c].stopMessageTs = channelStates[c].stopMessageTs
    /\ (\E i \in 1..Len(msgs') :
            /\ msgs'[i].text = "_Stopped_"
            /\ (i > Len(msgs) \/ msgs[i].text # "_Stopped_"))
         => \E id \in TaskIds :
              RunEnds(id) /\ tasks[id].stopped # "none" /\ tasks'[id].raised = "none"

StopDelivered(id, c) ==
    tasks[id].pc = "unused" /\ tasks'[id].kind = "stop" /\ tasks'[id].ch = c

\* C5: a stop request on a running channel sets stopRequested and signals
\* abort in the step that issues the "Stopping" post, before the post has
\* returned; when the post returns its handle is stored in the session
C5_StopRequest ==
    [][\A id \in TaskIds :
         /\ \A c \in Channels :
              (StopDelivered(id, c) /\ isRunning(c))
                => /\ tasks'[id].pc = "stoppingPost"
                   /\ channelStates'[c].stopRequested
                   /\ runner'[c].abortSignalled
                   /\ msgs' = msgs
                   /\ channelStates'[c].stopMessageTs = channelStates[c].stopMessageTs
         /\ (tasks[id].pc = "stoppingPost" /\ tasks'[id].pc # "stoppingPost")
                => /\ msgs' = Append(msgs, Msg(tasks[id].ch, "_Stopping..._"))
                   /\ channelStates'[tasks[id].ch].stopMessageTs = Len(msgs')
                   /\ tasks'[id].outcome = "returned"]_vars

\* a stop request has been acknowledged while the agent call is in flight
C5_Witness ==
    \E id \in TaskIds :
        LET s == channelStates[tasks[id].ch] IN
        /\ tasks[id].pc = "done"
        /\ tasks[id].kind = "stop"
        /\ tasks[id].result = "stopping"
        /\ s.running /\ s.stopRequested
        /\ s.stopMessageTs # 0
        /\ msgs[s.stopMessageTs].text = "_Stopping..._"
        /\ runner[tasks[id].ch].inFlight
        /\ runner[tasks[id].ch].abortSignalled

\* C6: no step of a stop request changes running; running goes from true to
\* false only in the step that ends the run's handleEvent call, when the agent
\* call is no longer in flight; while the agent call is in flight the channel
\* is running
C6_StopDoesNotEndRun ==
    /\ [](\A c \in Channels : runner[c].inFlight => channelStates[c].running)
    /\ [][/\ \A c \in Channels :
               (channelStates[c].running /\ ~channelStates'[c].running)
                 => /\ ~runner'[c].inFlight
                    /\ \E id \in TaskIds :
                         /\ tasks[id].kind = "message"
                         /\ tasks[id].ch = c
                         /\ RunEnds(id)
          /\ \A id \in TaskIds :
               (tasks'[id].kind = "stop" /\ tasks'[id] # tasks[id])
                 => channelStates'[tasks'[id].ch].running
                      = channelStates[tasks'[id].ch].running]_vars

\* after a stop request has been handled the channel is still running
C6_Witness ==
    \E id, rid \in TaskIds :
        /\ tasks[id].pc = "done"
        /\ tasks[id].kind = "stop"
        /\ tasks[id].result = "stopping"
        /\ tasks[rid].pc = "agent"
        /\ tasks[rid].ch = tasks[id].ch
        /\ channelStates[tasks[id].ch].running
        /\ channelStates[tasks[id].ch].stopRequested


(***************************************************************************)
(* The start of a run.                                                     *)
(***************************************************************************)
\* the step in which handleEvent is called for event id and starts a run
RunStarts(id) ==
    /\ tasks[id].pc = "unused"
    /\ tasks'[id].kind = "message"
    /\ (tasks'[id].pc \in RunPcs \/ tasks'[id].raised = "sync")

\* C7: the step that starts a run sets running and clears stopRequested, and
\* while a run is in flight stopRequested is true only if a stop request was
\* delivered to the channel after that run's event and found it running
C7_StopRequestedBelongsToRun ==
    /\ [](\A rid \in TaskIds :
            (tasks[rid].pc \in RunPcs /\ channelStates[tasks[rid].ch].stopRequested)
              => \E sid \in TaskIds :
                    /\ sid > rid
                    /\ tasks[sid].kind = "stop"
                    /\ tasks[sid].ch = tasks[rid].ch
                    /\ tasks[sid].result = "stopping")
    /\ [][\A id \in TaskIds :
            RunStarts(id)
              => /\ ~channelStates'[tasks'[id].ch].stopRequested
                 /\ (tasks'[id].pc \in RunPcs => channelStates'[tasks'[id].ch].running)]_vars

\* a second run is in flight, with stopRequested clear, after a stopped first run
C7_Witness ==
    \E rid, sid \in TaskIds :
        /\ sid < rid
        /\ tasks[sid].kind = "stop"
        /\ tasks[sid].result = "stopping"
        /\ tasks[rid].pc \in RunPcs
        /\ tasks[rid].ch = tasks[sid].ch
        /\ channelStates[tasks[rid].ch].running
        /\ ~channelStates[tasks[rid].ch].stopRequested

ExactCommands ==
    {TxtLogin, TxtLoginAnthropic, TxtLogout, TxtLogoutAnthropic, TxtAuthStatus,
     TxtAuth}

\* the handleEvent calls that are suspended or were dropped, with their texts
Delivered(id) == tasks[id].kind = "message" /\ tasks[id].pc \notin {"unused", "done"}

\* no step of a command branch touches running, stopRequested, the log sync
\* or the agent
CommandFrame ==
    \A id \in TaskIds :
        (/\ tasks'[id] # tasks[id]
         /\ (tasks'[id].pc \in CommandPcs \/ tasks[id].pc \in CommandPcs))
          => /\ \A c \in Channels :
                  /\ channelStates'[c].running = channelStates[c].running
                  /\ channelStates'[c].stopRequested = channelStates[c].stopRequested
             /\ lastSync' = lastSync
             /\ runner' = runner

\* C10, as claimed: an event is handled as a command exactly when its text is
\* one of the six command texts, and a command leaves running, stopRequested,
\* the log sync and the agent alone
C10_Original ==
    /\ [](\A id \in TaskIds :
            Delivered(id) =>
               (tasks[id].pc \in CommandPcs <=> tasks[id].text \in ExactCommands))
    /\ [][CommandFrame]_vars

\* C10, amended: an event is handled as a command exactly when its text, with
\* leading and trailing whitespace removed, is one of the six command texts
\* (case-sensitive, no arguments); a command leaves running, stopRequested,
\* the log sync and the agent alone
C10_CommandsAfterTrim ==
    /\ [](\A id \in TaskIds :
            Delivered(id) =>
               (tasks[id].pc \in CommandPcs <=> trim(tasks[id].text) \in ExactCommands))
    /\ [][CommandFrame]_vars

\* a command is being answered while a run is in flight
C10_Witness ==
    \E id, rid \in TaskIds :
        /\ tasks[id].pc = "statusPost"
        /\ tasks[id].text = TxtAuthPadded
        /\ tasks[rid].pc = "agent"
        /\ tasks[rid].ch = tasks[id].ch
        /\ channelStates[tasks[id].ch].running


(***************************************************************************)
(* The oauth functions over time: the clock, a credential file left by an  *)
(* earlier process, and calls of the exported functions on their own.      *)
(***************************************************************************)
\* events and calls in one behaviour of the authentication specification
MaxAuthEvents == 3

\* the instants Date.now() is read at: the start, the last instant a pending
\* authentication made at the start is valid (and the first at which the
\* stored credential is expired), and the instant after it
Instants == {0, AUTH_TIMEOUT_MS, AUTH_TIMEOUT_MS + 1}

\* time passes
Tick ==
    /\ \E t \in Instants : t > now /\ now' = t
    /\ UNCHANGED <<envKey, win, logFile, credFile, channelStates, pendingAuths, nextVerifier,
                   runner, lastSync, context, msgs, tasks, nextEv, loginFlows,
                   pendingLogins, ctx>>

\* oauth.json as an earlier process left it: a credential that expires at the
\* pending timeout
StoredFile == CredFile(1, 1, AUTH_TIMEOUT_MS)

InitAuth ==
    /\ now = 0
    /\ envKey = FALSE
    /\ credFile \in {NoFile, StoredFile}
    /\ channelStates = [c \in Channels |-> NoState]
    /\ pendingAuths = [c \in Channels |-> NoPending]
    /\ nextVerifier = 1
    /\ runner = [c \in Channels |-> IdleRunner]
    /\ lastSync = [c \in Channels |-> 0]
    /\ msgs = << >>
    /\ tasks = [t \in TaskIds |-> NoTask]
    /\ nextEv = 0
    /\ loginFlows = << >>
    /\ pendingLogins = [c \in Channels |-> 0]
    /\ ctx = NewContext
    /\ win = NoWindow
    /\ logFile = [c \in Channels |-> {}]
    /\ context = [c \in Channels |-> {}]

\* a call of an exported function has returned result (and error) to its caller
Returned(t, result, error) ==
    [t EXCEPT !.pc = "done", !.result = result, !.error = error,
              !.verifier = 0, !.outcome = "returned"]

\* the error text of a failed completeLogin: what it says and the body it quotes
loginError(branch, body) ==
    CASE branch = "noPending" -> [text |-> "No pending login", body |-> ""]
      [] branch = "expired" -> [text |-> "Login expired", body |-> ""]
      [] branch = "http400" -> [text |-> "Token exchange failed", body |-> body]
      [] branch = "none" -> [text |-> "", body |-> ""]
      [] OTHER -> [text |-> "Login failed", body |-> ""]

\* completeLogin(channelId, authCode, workingDir) called on its own: up to its fetch
CallCompleteLogin(c, cap) ==
    LET id == nextEv + 1
        t0 == [NoTask EXCEPT !.kind = "completeLogin", !.ch = c, !.ts = id]
        branch == completeLoginBranch(pendingAuths, c, now)
    IN
    /\ nextEv < cap
    /\ nextEv' = id
    /\ IF branch = "fetch"
       THEN /\ pendingAuths' = pendingAuths
            /\ tasks' = [tasks EXCEPT ![id] =
                   [t0 EXCEPT !.pc = "callExchange",
                              !.verifier = pendingAuths[c].verifier]]
       ELSE /\ pendingAuths' = deletePending(pendingAuths, c)
            /\ tasks' = [tasks EXCEPT ![id] =
                   Returned(t0, "failure", loginError(branch, ""))]
    /\ UNCHANGED <<now, envKey, win, logFile, credFile, channelStates, nextVerifier, runner,
                   lastSync, context, msgs, loginFlows, pendingLogins, ctx>>

\* completeLogin called on its own: the token endpoint answers
CallExchangeReturns(id, resp) ==
    LET t == tasks[id] IN
    /\ t.pc = "callExchange"
    /\ pendingAuths' = deletePending(pendingAuths, t.ch)
    /\ IF resp.kind = "ok"
       THEN /\ credFile' = CredFile(resp.refresh, resp.access,
                                    expiresAt(now, resp.expires_in))
            /\ tasks' = [tasks EXCEPT ![id] = Returned(t, "success", loginError("none", ""))]
       ELSE /\ credFile' = credFile
            /\ tasks' = [tasks EXCEPT ![id] =
                   Returned(t, "failure", loginError(resp.kind, resp.body))]
    /\ UNCHANGED <<now, envKey, win, logFile, channelStates, nextVerifier, runner, lastSync, context,
                   msgs, nextEv, loginFlows, pendingLogins, ctx>>


\* the token endpoint's answers to a refresh
RefreshResponses ==
    {[kind |-> "ok", access |-> 4, refresh |-> 5, expires_in |-> 900, body |-> ""],
     [kind |-> "http400", access |-> 0, refresh |-> 0, expires_in |-> 0,
      body |-> "invalid_grant"],
     [kind |-> "networkError", access |-> 0, refresh |-> 0, expires_in |-> 0,
      body |-> ""]}

\* a test that lets a credential live through its expiry instant
tokenExpiredLate(t, file) == t > file.expires

\* getOAuthToken: Date.now() >= credentials.expires
tokenExpired(t, file) == t >= file.expires

\* refreshToken: a non-2xx answer or a raised error returns null; nothing is saved
refreshFailed(file) == file

\* getOAuthToken(workingDir): up to its return or to the fetch of refreshToken
\* (a token of 0 is null)
CallGetOAuthToken(cap) ==
    LET id == nextEv + 1
        t0 == [NoTask EXCEPT !.kind = "getOAuthToken", !.ts = id]
    IN
    /\ nextEv < cap
    /\ nextEv' = id
    /\ tasks' = [tasks EXCEPT ![id] =
          IF ~isLoggedIn(credFile)
          THEN Returned(t0, "null", t0.error)
          ELSE IF tokenExpired(now, credFile)
          THEN [t0 EXCEPT !.pc = "refreshFetch", !.refresh = credFile.refresh]
          ELSE Returned([t0 EXCEPT !.token = credFile.access], "token", t0.error)]
    /\ UNCHANGED <<now, envKey, win, logFile, credFile, channelStates, pendingAuths, nextVerifier,
                   runner, lastSync, context, msgs, loginFlows, pendingLogins, ctx>>

\* refreshToken: the token endpoint answers
RefreshReturns(id, resp) ==
    LET t == tasks[id] IN
    /\ t.pc = "refreshFetch"
    /\ IF resp.kind = "ok"
       THEN /\ credFile' = CredFile(resp.refresh, resp.access,
                                    expiresAt(now, resp.expires_in))
            /\ tasks' = [tasks EXCEPT ![id] =
                   Returned([t EXCEPT !.token = resp.access, !.detail = resp.kind],
                            "token", t.error)]
       ELSE /\ credFile' = refreshFailed(credFile)
            /\ tasks' = [tasks EXCEPT ![id] =
                   Returned([t EXCEPT !.detail = resp.kind], "null", t.error)]
    /\ UNCHANGED <<now, envKey, win, logFile, channelStates, pendingAuths, nextVerifier, runner,
                   lastSync, context, msgs, nextEv, loginFlows, pendingLogins, ctx>>

\* the texts of the authentication specification
AuthTexts == {TxtHello, TxtCode, TxtSlashCode, TxtLogin, TxtLogout}

\* /login, pasted codes, logout and token reads on one channel, with the
\* clock; the transport and the agent answer without error
NextAuth ==
    \/ Tick
    \/ \E c \in RunChannels, raw \in AuthTexts :
          DispatchMessage(c, raw, TRUE, MaxAuthEvents)
    \/ \E c \in RunChannels : CallCompleteLogin(c, MaxAuthEvents)
    \/ CallGetOAuthToken(MaxAuthEvents)
    \/ \E id \in TaskIds : CommandPostReturns(id)
    \/ \E id \in TaskIds, resp \in TokenResponses : ExchangeReturns(id, resp)
    \/ \E id \in TaskIds, resp \in TokenResponses : CallExchangeReturns(id, resp)
    \/ \E id \in TaskIds, resp \in RefreshResponses : RefreshReturns(id, resp)
    \/ \E id \in TaskIds : SetTypingReturns(id, TRUE)
    \/ \E id \in TaskIds : SetWorkingReturns(id, TRUE)
    \/ \E id \in TaskIds : AgentReturns(id, "completed")
    \/ \E id \in TaskIds : SetWorkingDoneReturns(id, TRUE)

SpecAuth == InitAuth /\ [][NextAuth]_vars


(***************************************************************************)
(* The authentication protocol.                                            *)
(***************************************************************************)
\* the step in which handleEvent is called for event id and is still
\* suspended after it
HandleEventCalled(id) ==
    /\ tasks[id].pc = "unused"
    /\ tasks'[id].kind = "message"
    /\ tasks'[id].pc \notin {"ignored", "done"}

\* C11: a message handleEvent receives goes to the code exchange, and not to
\* the agent, exactly when the channel has a pending authentication that is
\* not older than the timeout, the text (as handleEvent reads it, trimmed)
\* contains "#", and the text does not start with "/"
C11_AuthResponseRecognition ==
    [][\A id \in TaskIds :
         LET c == tasks'[id].ch
             text == trim(tasks'[id].text)
         IN
         HandleEventCalled(id)
           => /\ tasks'[id].pc \in AuthCodePcs
                   <=> (/\ pendingAuths[c].exists
                        /\ now - pendingAuths[c].createdAt <= AUTH_TIMEOUT_MS
                        /\ includes(text, "#")
                        /\ ~startsWith(text, "/"))
              /\ tasks'[id].pc \in AuthCodePcs
                   => /\ tasks'[id].pc = "exchange"
                      /\ lastSync' = lastSync
                      /\ runner' = runner
                      /\ channelStates'[c].running = channelStates[c].running]_vars

\* a code pasted at the last instant of the pending authentication is being
\* exchanged
C11_Witness ==
    \E id \in TaskIds :
        /\ tasks[id].kind = "message"
        /\ tasks[id].pc = "exchange"
        /\ tasks[id].text = TxtCode
        /\ now = AUTH_TIMEOUT_MS
        /\ ~channelStates[tasks[id].ch].running

\* the step in which a call of completeLogin returns a failure
CompleteLoginFails(id) ==
    \/ /\ tasks[id].pc \in {"unused", "callExchange"}
       /\ tasks'[id].kind = "completeLogin"
       /\ tasks'[id].pc = "done"
       /\ tasks'[id].result = "failure"
    \/ /\ tasks[id].pc = "exchange"
       /\ tasks'[id].pc = "loginResultPost"
       /\ tasks'[id].detail # "success"

\* C12: a call of completeLogin that fails (no pending entry, expired entry,
\* non-2xx answer, network or parse error) returns a failure with an error
\* text and does not throw, leaves the stored credential as it was, and the
\* channel has no pending entry after it; for a non-2xx answer the error
\* holds the body of the answer
C12_CompleteLoginFailure ==
    /\ [](\A id \in TaskIds :
            (tasks[id].kind = "completeLogin" /\ tasks[id].pc = "done")
              => /\ tasks[id].outcome = "returned"
                 /\ tasks[id].result \in {"success", "failure"}
                 /\ tasks[id].result = "failure" => tasks[id].error.text # ""
                 /\ tasks[id].error.text = "Token exchange failed"
                      => tasks[id].error.body
                           \in {r.body : r \in {x \in TokenResponses : x.kind = "http400"}})
    /\ [][\A id \in TaskIds :
            CompleteLoginFails(id)
              => /\ credFile' = credFile
                 /\ pendingAuths'[tasks'[id].ch] = NoPending]_vars

\* a call of completeLogin was refused by the token endpoint: the credential
\* of the earlier process is still stored and the pending entry is gone
C12_Witness ==
    \E id \in TaskIds :
        /\ tasks[id].kind = "completeLogin"
        /\ tasks[id].pc = "done"
        /\ tasks[id].result = "failure"
        /\ tasks[id].error.text = "Token exchange failed"
        /\ tasks[id].error.body = "invalid_grant"
        /\ credFile = StoredFile
        /\ pendingAuths[tasks[id].ch] = NoPending


(***************************************************************************)
(* auth.ts: handleLogin, its waiter and its timer (commands.ts 105-196).   *)
(*                                                                         *)
(* A flow is one invocation of handleLogin. authStorage.login is a library *)
(* call: it invokes the onPrompt callback either before it first yields or *)
(* at a later turn of the event loop; both are modelled, the same way for  *)
(* every flow of a behaviour.                                              *)
(***************************************************************************)
\* invocations of handleLogin in one behaviour
MaxLogins == 3

\* a flow whose authStorage.login has been called and has not prompted yet
NewFlow(c, promptsAtOnce) ==
    [ch |-> c, pc |-> "login", waiter |-> "none", why |-> "", timer |-> FALSE,
     deadline |-> 0, atOnce |-> promptsAtOnce]

\* handleLogin: clearTimeout(existing.timeout); existing.reject(...)
cancelExisting(flows, e) ==
    IF e = 0 THEN flows
    ELSE [flows EXCEPT ![e].timer = FALSE, ![e].waiter = "rejected",
                       ![e].why = "cancelled", ![e].pc = "caught"]

\* onPrompt: setTimeout(..., AUTH_TIMEOUT_MS); pendingLogins.set(channelId, ...)
prompt(flows, f, t) ==
    [flows EXCEPT ![f].pc = "prompt", ![f].waiter = "waiting", ![f].timer = TRUE,
                  ![f].deadline = t + AUTH_TIMEOUT_MS]

\* handleLogin(channelId, slack) up to its await of authStorage.login
handleLogin(c, promptsAtOnce) ==
    LET f == Len(loginFlows) + 1
        cancelled == cancelExisting(loginFlows, pendingLogins[c])
        started == Append(cancelled, NewFlow(c, promptsAtOnce))
    IN
    /\ Len(loginFlows) < MaxLogins
    /\ loginFlows # << >> => promptsAtOnce = loginFlows[1].atOnce
    /\ IF promptsAtOnce
       THEN /\ loginFlows' = prompt(started, f, now)
            /\ pendingLogins' = [pendingLogins EXCEPT ![c] = f]
       ELSE /\ loginFlows' = started
            /\ pendingLogins' = [pendingLogins EXCEPT ![c] = 0]
    /\ UNCHANGED <<now, envKey, win, logFile, credFile, channelStates, pendingAuths, nextVerifier,
                   runner, lastSync, context, msgs, tasks, nextEv, ctx>>

\* authStorage.login invokes onAuth and onPrompt of flow f
OnPrompt(f) ==
    /\ f \in 1..Len(loginFlows)
    /\ loginFlows[f].pc = "login"
    /\ loginFlows' = prompt(loginFlows, f, now)
    /\ pendingLogins' = [pendingLogins EXCEPT ![loginFlows[f].ch] = f]
    /\ msgs' = Append(msgs, Msg(loginFlows[f].ch, "Login to Anthropic"))
    /\ UNCHANGED <<now, envKey, win, logFile, credFile, channelStates, pendingAuths, nextVerifier,
                   runner, lastSync, context, tasks, nextEv, ctx>>

\* the timer of flow f fires: pendingLogins.delete(channelId); reject(...)
LoginTimerFires(f) ==
    /\ f \in 1..Len(loginFlows)
    /\ loginFlows[f].timer
    /\ now >= loginFlows[f].deadline
    /\ pendingLogins' = [pendingLogins EXCEPT ![loginFlows[f].ch] = 0]
    /\ loginFlows' = [loginFlows EXCEPT ![f].timer = FALSE, ![f].waiter = "rejected",
                                        ![f].why = "timeout", ![f].pc = "caught"]
    /\ UNCHANGED <<now, envKey, win, logFile, credFile, channelStates, pendingAuths, nextVerifier,
                   runner, lastSync, context, msgs, tasks, nextEv, ctx>>

\* tryCompleteLogin(channelId, text), with the trimmed text of tryHandleCommand
tryCompleteLogin(c, raw) ==
    LET e == pendingLogins[c]
        text == trim(raw)
    IN
    /\ e # 0
    /\ LooksLikeAuthCode(text)
    /\ pendingLogins' = [pendingLogins EXCEPT ![c] = 0]
    /\ loginFlows' = [loginFlows EXCEPT ![e].timer = FALSE, ![e].waiter = "resolved",
                                        ![e].pc = "exchange"]
    /\ UNCHANGED <<now, envKey, win, logFile, credFile, channelStates, pendingAuths, nextVerifier,
                   runner, lastSync, context, msgs, tasks, nextEv, ctx>>

\* /login and pasted codes through tryHandleCommand, with the clock
NextLogin ==
    \/ Tick
    \/ \E c \in Channels, promptsAtOnce \in BOOLEAN : handleLogin(c, promptsAtOnce)
    \/ \E f \in 1..MaxLogins : OnPrompt(f)
    \/ \E f \in 1..MaxLogins : LoginTimerFires(f)
    \/ \E c \in Channels, raw \in {TxtCode, TxtHello} : tryCompleteLogin(c, raw)

SpecLogin == InitAuth /\ [][NextLogin]_vars

\* the flows whose waiter is still waiting on channel c
Waiting(c) ==
    {f \in 1..Len(loginFlows) :
        loginFlows[f].ch = c /\ loginFlows[f].waiter = "waiting"}

\* C13, as claimed: a login started on a channel with a pending login rejects
\* the earlier waiter and clears its timer; under every interleaving of login
\* starts a channel has at most one waiting flow, the one its pending entry
\* belongs to; and a flow's timer never removes the entry of a newer flow
C13_Original ==
    /\ [](\A c \in Channels : \A f \in Waiting(c) : pendingLogins[c] = f)
    /\ [][/\ \A c \in Channels :
               (Len(loginFlows') > Len(loginFlows)
                  /\ loginFlows'[Len(loginFlows')].ch = c
                  /\ pendingLogins[c] # 0)
                 => /\ loginFlows'[pendingLogins[c]].waiter = "rejected"
                    /\ ~loginFlows'[pendingLogins[c]].timer
          /\ \A f \in 1..Len(loginFlows) :
               (loginFlows[f].timer /\ loginFlows'[f].why = "timeout")
                 => pendingLogins[loginFlows[f].ch] \in {0, f}]_vars


\* the step in which event or call id reads the channel's pending entry:
\* handleEvent with a text that is not a command, or completeLogin
AccessesPending(id) ==
    /\ tasks[id].pc = "unused"
    /\ \/ tasks'[id].kind = "completeLogin"
       \/ /\ tasks'[id].kind = "message"
          /\ tasks'[id].pc \notin {"ignored", "done"}
          /\ ~IsCommand(trim(tasks'[id].text))

\* C14: an access (hasPendingAuth in handleEvent, or completeLogin) that finds
\* an entry created more than AUTH_TIMEOUT_MS ago removes it and treats it as
\* absent: no exchange with the token endpoint is started, a message goes on
\* to the run, and completeLogin returns a failure
C14_LazyExpiry ==
    [][\A id \in TaskIds :
         LET c == tasks'[id].ch IN
         (/\ AccessesPending(id)
          /\ pendingAuths[c].exists
          /\ now - pendingAuths[c].createdAt > AUTH_TIMEOUT_MS)
           => /\ pendingAuths'[c] = NoPending
              /\ tasks'[id].pc \notin {"exchange", "callExchange", "loginResultPost"}
              /\ tasks'[id].kind = "message" => tasks'[id].pc \in RunPcs
              /\ tasks'[id].kind = "completeLogin"
                   => /\ tasks'[id].pc = "done"
                      /\ tasks'[id].result = "failure"]_vars

\* a code pasted one instant after the timeout, right after /login, was not
\* exchanged: the entry is gone and the text went on to the run
C14_Witness ==
    \E id \in TaskIds \ {1} :
        /\ tasks[id - 1].pc = "loginPost"
        /\ tasks[id - 1].ch = tasks[id].ch
        /\ tasks[id].kind = "message"
        /\ tasks[id].text = TxtCode
        /\ tasks[id].pc \in RunPcs
        /\ now = AUTH_TIMEOUT_MS + 1
        /\ pendingAuths[tasks[id].ch] = NoPending


\* the step in which a call of completeLogin returns success
CompleteLoginSucceeds(id) ==
    \/ /\ tasks[id].pc = "callExchange"
       /\ tasks'[id].result = "success"
    \/ /\ tasks[id].pc = "exchange"
       /\ tasks'[id].pc = "loginResultPost"
       /\ tasks'[id].detail = "success"

\* C15: when the code exchange succeeds the stored credential holds the
\* refresh and access tokens of the answer, its expires is the instant the
\* answer arrived plus expires_in seconds minus five minutes, and the
\* channel has no pending entry
C15_SuccessfulExchange ==
    [][\A id \in TaskIds :
         CompleteLoginSucceeds(id)
           => /\ \E r \in TokenResponses :
                   /\ r.kind = "ok"
                   /\ credFile' = [file |-> "oauth", refresh |-> r.refresh,
                                   access |-> r.access,
                                   expires |-> now + r.expires_in * 1000
                                                 - 5 * 60 * 1000]
              /\ pendingAuths'[tasks[id].ch] = NoPending]_vars

\* a code was exchanged at the timeout instant, some time after the call
C15_Witness ==
    \E id \in TaskIds :
        /\ tasks[id].kind = "message"
        /\ tasks[id].pc = "loginResultPost"
        /\ tasks[id].detail = "success"
        /\ now = AUTH_TIMEOUT_MS
        /\ credFile.file = "oauth"
        /\ credFile.refresh = 3
        /\ credFile.access = 2
        /\ credFile.expires = AUTH_TIMEOUT_MS + 600000
        /\ pendingAuths[tasks[id].ch] = NoPending


\* C16: with a pending authentication on the channel, a message handleEvent
\* receives that is not a command and has no "#" leaves the pending entries
\* as they are and starts a run
C16_NoSeparatorIsAgentInput ==
    [][\A id \in TaskIds :
         LET c == tasks'[id].ch
             text == trim(tasks'[id].text)
         IN
         (/\ HandleEventCalled(id)
          /\ pendingAuths[c].exists
          /\ now - pendingAuths[c].createdAt <= AUTH_TIMEOUT_MS
          /\ text \notin ExactCommands
          /\ ~includes(text, "#"))
           => /\ pendingAuths' = pendingAuths
              /\ tasks'[id].pc = "setTyping"
              /\ channelStates'[c].running
              /\ lastSync'[c] = id]_vars

\* a plain reply after /login started a run and the entry is still pending
C16_Witness ==
    \E id \in TaskIds :
        /\ tasks[id].kind = "message"
        /\ tasks[id].text = TxtHello
        /\ tasks[id].pc = "agent"
        /\ pendingAuths[tasks[id].ch].exists
        /\ pendingAuths[tasks[id].ch].createdAt = 0
        /\ now = AUTH_TIMEOUT_MS


\* C17: getOAuthToken on a stored credential returns its access token with no
\* fetch while now < expires; from expires on it starts a refresh with the
\* stored refresh token; a refresh that succeeds stores and returns the new
\* credential, and one that fails (non-2xx or network error) returns null,
\* does not throw, and leaves the stored credential as it was
C17_GetOAuthToken ==
    [][\A id \in TaskIds :
         /\ (/\ tasks[id].pc = "unused"
             /\ tasks'[id].kind = "getOAuthToken"
             /\ credFile.file = "oauth")
              => /\ credFile' = credFile
                 /\ IF now < credFile.expires
                    THEN /\ tasks'[id].pc = "done"
                         /\ tasks'[id].result = "token"
                         /\ tasks'[id].token = credFile.access
                    ELSE /\ tasks'[id].pc = "refreshFetch"
                         /\ tasks'[id].refresh = credFile.refresh
         /\ (tasks[id].pc = "refreshFetch" /\ tasks'[id].pc # "refreshFetch")
              => /\ tasks'[id].pc = "done"
                 /\ tasks'[id].outcome = "returned"
                 /\ IF tasks'[id].detail = "ok"
                    THEN \E r \in RefreshResponses :
                            /\ r.kind = "ok"
                            /\ tasks'[id].token = r.access
                            /\ credFile' = [file |-> "oauth", refresh |-> r.refresh,
                                            access |-> r.access,
                                            expires |-> now + r.expires_in * 1000
                                                          - 5 * 60 * 1000]
                    ELSE /\ tasks'[id].token = 0
                         /\ tasks'[id].result = "null"
                         /\ credFile' = credFile]_vars

\* a refresh made at the expiry instant was refused: null was returned and
\* the credential of the earlier process is still stored
C17_Witness ==
    \E id \in TaskIds :
        /\ tasks[id].kind = "getOAuthToken"
        /\ tasks[id].pc = "done"
        /\ tasks[id].detail = "http400"
        /\ tasks[id].refresh = 1
        /\ tasks[id].token = 0
        /\ credFile = StoredFile
        /\ now = AUTH_TIMEOUT_MS

\* C18: the step that handles a logout command leaves the empty record in an
\* existing oauth.json (the file is not deleted, and not created when absent),
\* so isLoggedIn is false, and getOAuthToken returns null whenever the file
\* holds no credential
C18_Logout ==
    [][\A id \in TaskIds :
         /\ (tasks[id].pc = "unused" /\ tasks'[id].pc = "logoutPost")
              => /\ credFile' = IF credFile.file = "absent"
                                THEN credFile
                                ELSE [file |-> "empty", refresh |-> 0, access |-> 0,
                                      expires |-> 0]
                 /\ ~isLoggedIn(credFile')
         /\ (/\ tasks[id].pc = "unused"
             /\ tasks'[id].kind = "getOAuthToken"
             /\ credFile.file # "oauth")
              => /\ tasks'[id].pc = "done"
                 /\ tasks'[id].result = "null"
                 /\ tasks'[id].token = 0
                 /\ credFile' = credFile]_vars

\* after a logout the stored record is the empty one and a token read
\* returned null
C18_Witness ==
    \E id \in TaskIds \ {1} :
        /\ tasks[id - 1].pc = "logoutPost"
        /\ tasks[id].kind = "getOAuthToken"
        /\ tasks[id].pc = "done"
        /\ tasks[id].result = "null"
        /\ credFile = EmptyFile


(***************************************************************************)
(* The adapter of createSlackContext (main.ts 128-258).                    *)
(*                                                                         *)
(* Every operation does updatePromise = updatePromise.then(body): an       *)
(* operation is a link of the chain, holding the link it was chained on.   *)
(* A body starts once the link before it is fulfilled; a link chained on a *)
(* rejected link is rejected without running its body.                     *)
(***************************************************************************)
\* operations invoked on the adapter in one behaviour
MaxOps == 4

\* operations chained on a promise that is already resolved
chainOnResolved(updatePromise) == 0

\* updatePromise.then(...): the link the new operation waits for
chainOn(updatePromise) == updatePromise

\* a setTyping body that posts whatever messageTs holds
setTypingPostsAlways(messageTs) == TRUE

\* setTyping, inside the chain: if (!messageTs)
setTypingPosts(messageTs) == messageTs = 0

\* setTyping, before the chain: if (isTyping && !messageTs)
setTypingChains(isTyping, messageTs) == isTyping /\ messageTs = 0

\* const workingIndicator = " ..."
workingIndicator == " ..."

\* a render that appends the indicator whatever the flag says
displayTextAlways(text, working) == Append(text, workingIndicator)

\* isWorking ? accumulatedText + workingIndicator : accumulatedText
displayText(text, working) ==
    IF working THEN Append(text, workingIndicator) ELSE text

\* a respondInThread body that posts whatever messageTs holds
threadPostsAlways(messageTs) == TRUE

\* respondInThread: if (messageTs)
threadPosts(messageTs) == messageTs # 0

\* a deleteMessage loop that lets a failed thread deletion escape
threadDeleteRethrows(ok) == ok

\* deleteMessage: try { await slack.deleteMessage(...) } catch { }: the loop
\* goes on whether the deletion returned or raised
threadDeleteContinues(ok) == TRUE

\* accumulatedText ? accumulatedText + "\n" + text : text
accumulate(accumulatedText, text) == Append(accumulatedText, text)

OpKinds ==
    {"respond", "replaceMessage", "respondInThread", "setTyping", "setWorking",
     "deleteMessage"}

\* the arguments of the operations: a text, or a boolean
OpArgs(kind) ==
    CASE kind \in {"respond", "replaceMessage", "respondInThread"} -> {"a"}
      [] kind = "setTyping" -> {TRUE}
      [] kind = "setWorking" -> {TRUE, FALSE}
      [] OTHER -> {"-"}

\* an operation is invoked: its body is chained, the caller awaits the link
Invoke(kind, arg) ==
    /\ Len(ctx.ops) < MaxOps
    /\ kind = "setTyping" => setTypingChains(arg, ctx.messageTs)
    /\ ctx' = [ctx EXCEPT
                 !.ops = Append(@, [kind |-> kind, arg |-> arg,
                                    prev |-> chainOn(ctx.updatePromise),
                                    state |-> "pending", call |-> "", callIx |-> 0,
                                    left |-> 0, chained |-> TRUE]),
                 !.updatePromise = Len(ctx.ops) + 1]
    /\ UNCHANGED <<now, envKey, win, logFile, credFile, channelStates, pendingAuths, nextVerifier,
                   runner, lastSync, context, msgs, tasks, nextEv, loginFlows, pendingLogins>>

\* the transport call an operation's body makes first ("" for none), from the
\* adapter's locals after the body's assignments
firstCall(op, c) ==
    CASE op.kind \in {"respond", "replaceMessage"} ->
            IF c.messageTs # 0 THEN "update" ELSE "post"
      [] op.kind = "setTyping" -> "post"
      [] op.kind = "setWorking" -> IF c.messageTs # 0 THEN "update" ELSE ""
      [] op.kind = "respondInThread" ->
            IF threadPosts(c.messageTs) THEN "thread" ELSE ""
      [] OTHER -> IF c.threadMessageTs # << >> THEN "deleteThread"
                  ELSE IF c.messageTs # 0 THEN "deleteMain" ELSE ""

\* the assignments of a body before its first transport call
bodyAssigns(op, c) ==
    CASE op.kind = "respond" ->
            [c EXCEPT !.accumulatedText = accumulate(@, op.arg)]
      [] op.kind = "replaceMessage" -> [c EXCEPT !.accumulatedText = <<op.arg>>]
      [] op.kind = "setTyping" -> [c EXCEPT !.accumulatedText = <<Thinking>>]
      [] op.kind = "setWorking" -> [c EXCEPT !.isWorking = op.arg]
      [] OTHER -> c

\* the transport call i makes, as the transport sees it
\* (ts is the message the call names: none for a post, the parent for a thread
\* post; working is the flag at the time of the call; result is how the call
\* ended, once it has)
Call(i, call, c) ==
    [op |-> i, call |-> call,
     ts |-> CASE call \in {"post", "upload"} -> 0
              [] call = "deleteThread" -> c.threadMessageTs[c.ops[i].left]
              [] OTHER -> c.messageTs,
     working |-> c.isWorking, result |-> "",
     text |-> CASE call \in {"post", "update"} ->
                     IF c.ops[i].kind = "setTyping"
                     THEN Append(c.accumulatedText, workingIndicator)
                     ELSE displayText(c.accumulatedText, c.isWorking)
                [] call = "thread" -> <<c.ops[i].arg>>
                [] OTHER -> << >>]

\* the body of operation i starts: the link it was chained on is fulfilled
BodyStarts(i) ==
    LET op == ctx.ops[i]
        skip == op.kind = "setTyping" /\ ~setTypingPosts(ctx.messageTs)
        c1 == IF skip THEN ctx ELSE bodyAssigns(op, ctx)
        call == IF skip THEN "" ELSE firstCall(op, c1)
        c2 == [c1 EXCEPT !.ops[i].left = Len(c1.threadMessageTs)]
    IN
    /\ i \in 1..Len(ctx.ops)
    /\ op.state = "pending"
    /\ IF op.prev = 0 THEN TRUE ELSE ctx.ops[op.prev].state = "fulfilled"
    /\ ctx' = IF call = ""
              THEN [c1 EXCEPT !.ops[i].state = "fulfilled"]
              ELSE [c2 EXCEPT !.ops[i].state = "running", !.ops[i].call = call,
                              !.ops[i].callIx = Len(c1.calls) + 1,
                              !.calls = Append(@, Call(i, call, c2))]
    /\ UNCHANGED <<now, envKey, win, logFile, credFile, channelStates, pendingAuths, nextVerifier,
                   runner, lastSync, context, msgs, tasks, nextEv, loginFlows, pendingLogins>>

\* operation i was chained on a link that is rejected: its body never runs
BodySkipped(i) ==
    /\ i \in 1..Len(ctx.ops)
    /\ ctx.ops[i].state = "pending"
    /\ ctx.ops[i].prev # 0
    /\ ctx.ops[ctx.ops[i].prev].state = "rejected"
    /\ ctx' = [ctx EXCEPT !.ops[i].state = "rejected"]
    /\ UNCHANGED <<now, envKey, win, logFile, credFile, channelStates, pendingAuths, nextVerifier,
                   runner, lastSync, context, msgs, tasks, nextEv, loginFlows, pendingLogins>>


MaxAllOps == 3

\* bodies that catch the error of their transport call
settlesSwallowing(ok) == "fulfilled"

\* no body catches the error of a post, an update or the deletion of the
\* primary message: the link is fulfilled when the call returns and rejected
\* when it raises
settles(ok) == IF ok THEN "fulfilled" ELSE "rejected"

\* a setTyping call that does not chain: setTyping(false), or setTyping(true)
\* when the primary message exists; it returns without doing anything
InvokeSetTypingUnchained(isTyping) ==
    /\ Len(ctx.ops) < MaxAllOps
    /\ ~setTypingChains(isTyping, ctx.messageTs)
    /\ ctx' = [ctx EXCEPT
                 !.ops = Append(@, [kind |-> "setTyping", arg |-> isTyping, prev |-> 0,
                                    state |-> "fulfilled", call |-> "", callIx |-> 0,
                                    left |-> 0, chained |-> FALSE])]
    /\ UNCHANGED <<now, envKey, win, logFile, credFile, channelStates, pendingAuths,
                   nextVerifier, runner, lastSync, context, msgs, tasks, nextEv,
                   loginFlows, pendingLogins>>

\* uploadFile: await slack.uploadFile(...), outside the chain: the transport
\* call is made at once, whatever the state of updatePromise
uploadFile ==
    LET i == Len(ctx.ops) + 1
        c1 == [ctx EXCEPT
                 !.ops = Append(@, [kind |-> "uploadFile", arg |-> "-", prev |-> 0,
                                    state |-> "running", call |-> "upload",
                                    callIx |-> Len(ctx.calls) + 1,
                                    left |-> 0, chained |-> FALSE])]
    IN
    /\ Len(ctx.ops) < MaxAllOps
    /\ ctx' = [c1 EXCEPT !.calls = Append(@, Call(i, "upload", c1))]
    /\ UNCHANGED <<now, envKey, win, logFile, credFile, channelStates, pendingAuths,
                   nextVerifier, runner, lastSync, context, msgs, tasks, nextEv,
                   loginFlows, pendingLogins>>

\* the transport call operation i awaits returns, or raises; the body goes
\* on to its next transport call or to its end
TransportReturns(i, ok) ==
    LET op == ctx.ops[i]
        done == [ctx EXCEPT !.calls[op.callIx].result =
                                IF ok THEN "returned" ELSE "raised"]
        settled == [done EXCEPT !.ops[i].state = settles(ok), !.ops[i].call = ""]
        next(c, call) == [c EXCEPT !.ops[i].call = call,
                                   !.ops[i].callIx = Len(c.calls) + 1,
                                   !.calls = Append(@, Call(i, call, c))]
    IN
    /\ i \in 1..Len(ctx.ops)
    /\ op.state = "running"
    /\ ctx' =
         CASE op.call = "post" ->
                 IF ok THEN [settled EXCEPT !.messageTs = op.callIx,
                                            !.calls[op.callIx].ts = op.callIx]
                       ELSE settled
           [] op.call \in {"update", "upload"} -> settled
           [] op.call = "thread" ->
                 IF ok THEN [settled EXCEPT !.threadMessageTs = Append(@, op.callIx)]
                       ELSE settled
           [] op.call = "deleteThread" ->
                 IF ~threadDeleteContinues(ok) THEN settled
                 ELSE IF op.left > 1
                 THEN next([done EXCEPT !.ops[i].left = @ - 1], "deleteThread")
                 ELSE IF ctx.messageTs # 0
                 THEN next([done EXCEPT !.ops[i].left = 0, !.threadMessageTs = << >>],
                           "deleteMain")
                 ELSE [done EXCEPT !.ops[i].left = 0, !.threadMessageTs = << >>,
                                   !.ops[i].state = "fulfilled", !.ops[i].call = ""]
           [] OTHER ->
                 IF ok THEN [settled EXCEPT !.messageTs = 0] ELSE settled
    /\ UNCHANGED <<now, envKey, win, logFile, credFile, channelStates, pendingAuths, nextVerifier,
                   runner, lastSync, context, msgs, tasks, nextEv, loginFlows, pendingLogins>>

InitCtx == Init /\ envKey = FALSE

\* operations invoked on one adapter at any moment, awaited or not
NextCtx ==
    \/ \E kind \in OpKinds : \E arg \in OpArgs(kind) : Invoke(kind, arg)
    \/ \E i \in 1..MaxOps : BodyStarts(i)
    \/ \E i \in 1..MaxOps : BodySkipped(i)
    \/ \E i \in 1..MaxOps, ok \in BOOLEAN : TransportReturns(i, ok)

SpecCtx == InitCtx /\ [][NextCtx]_vars

\* every operation of the adapter, the ones outside the chain included
NextCtxAll ==
    \/ \E kind \in OpKinds : \E arg \in OpArgs(kind) :
          Len(ctx.ops) < MaxAllOps /\ Invoke(kind, arg)
    \/ \E i \in 1..MaxAllOps : BodyStarts(i)
    \/ \E i \in 1..MaxAllOps : BodySkipped(i)
    \/ \E i \in 1..MaxAllOps, ok \in BOOLEAN : TransportReturns(i, ok)
    \/ \E isTyping \in BOOLEAN : InvokeSetTypingUnchained(isTyping)
    \/ uploadFile

SpecCtxAll == InitCtx /\ [][NextCtxAll]_vars

\* C19: the operations of the adapter run one at a time in the order they were
\* invoked: a body has started only if every operation invoked before it has
\* finished, and the transport calls are made in the order of the invocations
C19_OperationsSerialized ==
    /\ \A j \in 1..Len(ctx.ops) :
          ctx.ops[j].state \in {"running", "fulfilled"}
            => \A i \in 1..(j - 1) : ctx.ops[i].state \in {"fulfilled", "rejected"}
    /\ Cardinality({i \in 1..Len(ctx.ops) : ctx.ops[i].state = "running"}) <= 1
    /\ \A k, l \in 1..Len(ctx.calls) :
          k < l => ctx.calls[k].op <= ctx.calls[l].op

\* three operations were invoked without awaiting: the first is at its
\* transport call, the others wait for it
C19_Witness ==
    /\ Len(ctx.ops) >= 3
    /\ ctx.ops[1].state = "running"
    /\ ctx.ops[2].state = "pending"
    /\ ctx.ops[3].state = "pending"
    /\ ctx.ops[2].kind = "respond"

\* the transport calls that post the primary message
PrimaryPosts == {k \in 1..Len(ctx.calls) : ctx.calls[k].call = "post"}

\* C20: with no deleteMessage among the operations, the primary message is
\* posted at most once, and every other render is an update of the message
\* that post returned
C20_PrimaryPostedOnce ==
    (\A i \in 1..Len(ctx.ops) : ctx.ops[i].kind # "deleteMessage")
      => /\ Cardinality(PrimaryPosts) <= 1
         /\ \A k \in 1..Len(ctx.calls) :
               ctx.calls[k].call = "update"
                 => \E p \in PrimaryPosts : p < k /\ ctx.calls[k].ts = p
                                                   /\ ctx.calls[p].ts = p

\* two setTyping calls were made before the message existed; the first posted
\* it, the second did nothing, and a later respond updated it
C20_Witness ==
    /\ Len(ctx.ops) >= 3
    /\ ctx.ops[1].kind = "setTyping"
    /\ ctx.ops[2].kind = "setTyping"
    /\ ctx.ops[3].kind = "respond"
    /\ \A i \in 1..3 : ctx.ops[i].state = "fulfilled"
    /\ Cardinality(PrimaryPosts) = 1
    /\ \E k \in 1..Len(ctx.calls) : ctx.calls[k].call = "update" /\ ctx.calls[k].op = 3

\* the transport call a step has just made
newCall == ctx'.calls[Len(ctx'.calls)]

\* a step in which operation i makes one transport call, of this kind, naming
\* this message
madeCall(i, call, ts) ==
    /\ Len(ctx'.calls) = Len(ctx.calls) + 1
    /\ newCall.op = i
    /\ newCall.call = call
    /\ newCall.ts = ts

\* every step of a deleteMessage body: it starts with the newest tracked thread
\* message, goes from each thread message to the one created before it whether
\* the deletion returned or raised, forgets the thread handles after the
\* oldest, then deletes the primary message if there is one
DeleteMessageStep(i) ==
    LET op == ctx.ops[i]
        th == ctx.threadMessageTs
        k == CHOOSE k \in 1..Len(th) : th[k] = ctx.calls[op.callIx].ts
        last == /\ ctx'.threadMessageTs = << >>
                /\ IF ctx.messageTs # 0
                   THEN madeCall(i, "deleteMain", ctx.messageTs)
                   ELSE /\ ctx'.ops[i].state = "fulfilled"
                        /\ Len(ctx'.calls) = Len(ctx.calls)
    IN
    CASE op.state = "pending" /\ ctx'.ops[i].state # "rejected" ->
            IF th # << >> THEN madeCall(i, "deleteThread", th[Len(th)]) ELSE last
      [] op.state = "running" /\ op.call = "deleteThread" ->
            IF k > 1 THEN madeCall(i, "deleteThread", th[k - 1]) ELSE last
      [] OTHER -> TRUE

\* C21: deleteMessage deletes the tracked thread messages from the newest to
\* the oldest, goes on past a thread deletion that raised, then deletes the
\* primary message; when it has returned, no primary handle and no thread
\* handle is tracked
C21_DeleteMessage ==
    [][\A i \in 1..Len(ctx.ops) :
          ctx.ops[i].kind = "deleteMessage" /\ ctx'.ops[i] # ctx.ops[i]
            => /\ DeleteMessageStep(i)
               /\ ctx'.ops[i].state = "fulfilled"
                    => ctx'.messageTs = 0 /\ ctx'.threadMessageTs = << >>]_vars

\* a deleteMessage has returned after deleting two thread messages, the newer
\* first, the first of these deletions having raised, and then the primary
C21_Witness ==
    \E i \in 1..Len(ctx.ops) : \E k \in 1..Len(ctx.calls) :
        /\ ctx.ops[i].kind = "deleteMessage"
        /\ ctx.ops[i].state = "fulfilled"
        /\ k + 2 <= Len(ctx.calls)
        /\ ctx.calls[k].op = i /\ ctx.calls[k].call = "deleteThread"
        /\ ctx.calls[k].result = "raised"
        /\ ctx.calls[k + 1].op = i /\ ctx.calls[k + 1].call = "deleteThread"
        /\ ctx.calls[k + 1].ts < ctx.calls[k].ts
        /\ ctx.calls[k + 2].op = i /\ ctx.calls[k + 2].call = "deleteMain"
        /\ ctx.messageTs = 0 /\ ctx.threadMessageTs = << >>

\* no post of the adapter, primary or thread, has returned a message
NeverPosted ==
    \A k \in 1..Len(ctx.calls) :
        ctx.calls[k].call \in {"post", "thread"} => ctx.calls[k].result # "returned"

\* C22: a deleteMessage on an adapter that never posted anything makes no
\* transport call, changes none of the adapter's locals and does not raise,
\* whatever operations were attempted before it
C22_Original ==
    /\ [](NeverPosted
            => \A i \in 1..Len(ctx.ops) :
                  ctx.ops[i].kind = "deleteMessage"
                    => /\ ctx.ops[i].state # "rejected"
                       /\ \A k \in 1..Len(ctx.calls) : ctx.calls[k].op # i)
    /\ [][\A i \in 1..Len(ctx.ops) :
            (NeverPosted /\ ctx.ops[i].kind = "deleteMessage"
                         /\ ctx'.ops[i] # ctx.ops[i])
              => /\ ctx'.messageTs = ctx.messageTs
                 /\ ctx'.threadMessageTs = ctx.threadMessageTs
                 /\ ctx'.accumulatedText = ctx.accumulatedText
                 /\ ctx'.isWorking = ctx.isWorking
                 /\ ctx'.calls = ctx.calls]_vars

\* a step that renders the primary message: it posts or updates it
Renders == Len(ctx'.calls) = Len(ctx.calls) + 1 /\ newCall.call \in {"post", "update"}

\* the text of a render that follows the working flag
FollowsFlag ==
    newCall.text = IF ctx'.isWorking
                   THEN Append(ctx'.accumulatedText, workingIndicator)
                   ELSE ctx'.accumulatedText

\* the indicator is no part of the accumulated buffer
SuffixNotStored == \A n \in 1..Len(ctx.accumulatedText) :
                       ctx.accumulatedText[n] # workingIndicator

\* a setWorking body updates the primary message exactly when there is one
SetWorkingRerenders ==
    \A i \in 1..Len(ctx.ops) :
        (ctx.ops[i].kind = "setWorking" /\ ctx.ops[i].state = "pending"
                                        /\ ctx'.ops[i].state \in {"running", "fulfilled"})
          => /\ ctx'.isWorking = ctx.ops[i].arg
             /\ IF ctx.messageTs # 0
                THEN madeCall(i, "update", ctx.messageTs)
                ELSE ctx'.calls = ctx.calls

\* C23 as stated: every render of the primary message, by respond,
\* replaceMessage, setTyping or setWorking, shows the buffer followed by the
\* indicator if and only if the working flag is true at that render; the
\* indicator is never stored in the buffer; setWorking renders the primary
\* message exactly when one exists
C23_Original ==
    /\ []SuffixNotStored
    /\ [][Renders => FollowsFlag]_vars
    /\ [][SetWorkingRerenders]_vars

\* C23: a render by respond, replaceMessage or setWorking shows the buffer
\* followed by the indicator if and only if the working flag is true at that
\* render, and the post made by setTyping shows the placeholder followed by the
\* indicator whatever the flag; the indicator is never stored in the buffer;
\* setWorking renders the primary message exactly when one exists
C23_Renders ==
    /\ []SuffixNotStored
    /\ [][Renders => IF ctx.ops[newCall.op].kind = "setTyping"
                      THEN newCall.text = Append(ctx'.accumulatedText, workingIndicator)
                      ELSE FollowsFlag]_vars
    /\ [][SetWorkingRerenders]_vars

\* setTyping posted the placeholder with the indicator while the working flag
\* was false, and a later setWorking(false) rendered the message without it
C23_Witness ==
    \E k, l \in 1..Len(ctx.calls) :
        /\ ctx.calls[k].call = "post"
        /\ ctx.ops[ctx.calls[k].op].kind = "setTyping"
        /\ ~ctx.calls[k].working
        /\ ctx.calls[k].text = <<Thinking, workingIndicator>>
        /\ k < l
        /\ ctx.calls[l].call = "update"
        /\ ctx.ops[ctx.calls[l].op].kind = "setWorking"
        /\ ctx.calls[l].text = <<Thinking>>

\* C24: a respondInThread body posts a thread message under the primary
\* message, and records the handle the post returns, only when a primary
\* message exists when the body runs; otherwise it posts nothing and records
\* nothing
C24_RespondInThread ==
    [][\A i \in 1..Len(ctx.ops) :
          (ctx.ops[i].kind = "respondInThread" /\ ctx'.ops[i] # ctx.ops[i])
            => CASE ctx.ops[i].state = "pending" /\ ctx'.ops[i].state = "rejected" ->
                       ctx'.calls = ctx.calls /\ ctx'.threadMessageTs = ctx.threadMessageTs
                 [] ctx.ops[i].state = "pending" ->
                       /\ ctx'.threadMessageTs = ctx.threadMessageTs
                       /\ IF ctx.messageTs # 0
                          THEN madeCall(i, "thread", ctx.messageTs)
                          ELSE ctx'.calls = ctx.calls /\ ctx'.ops[i].state = "fulfilled"
                 [] OTHER ->
                       /\ Len(ctx'.calls) = Len(ctx.calls)
                       /\ ctx'.threadMessageTs =
                             IF ctx'.ops[i].state = "fulfilled"
                             THEN Append(ctx.threadMessageTs, ctx.ops[i].callIx)
                             ELSE ctx.threadMessageTs]_vars

\* one respondInThread ran before the primary message existed and did nothing;
\* another ran after it was posted and its handle is tracked
C24_Witness ==
    \E i, j \in 1..Len(ctx.ops) :
        /\ i < j
        /\ ctx.ops[i].kind = "respondInThread" /\ ctx.ops[i].state = "fulfilled"
        /\ ctx.ops[i].callIx = 0
        /\ ctx.ops[j].kind = "respondInThread" /\ ctx.ops[j].state = "fulfilled"
        /\ ctx.ops[j].callIx # 0
        /\ ctx.calls[ctx.ops[j].callIx].ts = ctx.messageTs
        /\ ctx.threadMessageTs = <<ctx.ops[j].callIx>>

(***************************************************************************)
(* The roving window: selectMessagesForWindow, as planned for             *)
(* context/roving-window.ts.  A line of the log is its position in the    *)
(* log (its date) and its estimated tokens.                               *)
(***************************************************************************)
MaxLines == 3
MaxTokens == 3
MaxInput == 6

\* the logs: up to MaxLines lines, in the order they were written
Logs ==
    UNION {{[i \in 1..n |-> [date |-> i, tokens |-> f[i]]] : f \in [1..n -> 1..MaxTokens]} :
           n \in 0..MaxLines}

\* interface WindowConfig
WindowConfigs ==
    [maxInputTokens : 0..MaxInput, reservedForOutput : 0..1,
     systemPromptTokens : 0..1, memoryTokens : 0..1, toolSchemaTokens : 0..1]

\* 1. Calculate available budget = maxInputTokens - reserved tokens
availableForHistory(config) ==
    config.maxInputTokens - config.reservedForOutput - config.systemPromptTokens
        - config.memoryTokens - config.toolSchemaTokens

\* a selection that stops one line early when the line fills the budget exactly
fitsBudgetStrict(totalTokens, tokens, available) == totalTokens + tokens < available

\* 3. Add messages backwards while under budget: the line is added when the
\* cumulative count with it stays within the budget
fitsBudget(totalTokens, tokens, available) == totalTokens + tokens <= available

\* a selection that returns nothing when the newest line is over the budget
keepsOversizedNever(selectedLines) == FALSE

\* Single message exceeds budget (truncate with notice): the newest line is
\* kept, truncated, when it alone is over the budget
keepsOversized(selectedLines) == selectedLines = << >>

InitWin ==
    /\ now = 0
    /\ envKey = FALSE
    /\ credFile = NoFile
    /\ channelStates = [c \in Channels |-> NoState]
    /\ pendingAuths = [c \in Channels |-> NoPending]
    /\ nextVerifier = 1
    /\ runner = [c \in Channels |-> IdleRunner]
    /\ lastSync = [c \in Channels |-> 0]
    /\ msgs = << >>
    /\ tasks = [t \in TaskIds |-> NoTask]
    /\ nextEv = 0
    /\ loginFlows = << >>
    /\ pendingLogins = [c \in Channels |-> 0]
    /\ ctx = NewContext
    /\ logFile = [c \in Channels |-> {}]
    /\ context = [c \in Channels |-> {}]
    /\ win \in {[NoWindow EXCEPT !.pc = "called", !.lines = lines, !.config = config] :
                  lines \in Logs, config \in WindowConfigs}

\* selectMessagesForWindow(lines, config) is entered: the budget is calculated
\* and the iteration starts from the most recent line
selectMessagesForWindow ==
    /\ win.pc = "called"
    /\ win' = [win EXCEPT !.pc = "backwards",
                          !.available = availableForHistory(win.config),
                          !.pos = Len(win.lines)]
    /\ UNCHANGED <<now, envKey, credFile, channelStates, pendingAuths, nextVerifier,
                   runner, lastSync, msgs, tasks, nextEv, loginFlows, pendingLogins,
                   ctx, logFile, context>>

\* one step of the backwards iteration: the line at pos is added, or the
\* iteration stops at it
AddBackwards ==
    LET line == win.lines[win.pos] IN
    /\ win.pc = "backwards"
    /\ win.pos > 0
    /\ win' = IF fitsBudget(win.totalTokens, line.tokens, win.available)
              THEN [win EXCEPT !.selectedLines = <<line>> \o @,
                               !.totalTokens = @ + line.tokens,
                               !.pos = @ - 1]
              ELSE IF keepsOversized(win.selectedLines)
              THEN [win EXCEPT !.selectedLines = <<line>>,
                               !.totalTokens = line.tokens,
                               !.truncated = TRUE,
                               !.pc = "stopped"]
              ELSE [win EXCEPT !.pc = "stopped"]
    /\ UNCHANGED <<now, envKey, credFile, channelStates, pendingAuths, nextVerifier,
                   runner, lastSync, msgs, tasks, nextEv, loginFlows, pendingLogins,
                   ctx, logFile, context>>

\* the iteration is over: WindowResult is returned
ReturnWindow ==
    /\ \/ win.pc = "backwards" /\ win.pos = 0
       \/ win.pc = "stopped"
    /\ win' = [win EXCEPT !.pc = "returned"]
    /\ UNCHANGED <<now, envKey, credFile, channelStates, pendingAuths, nextVerifier,
                   runner, lastSync, msgs, tasks, nextEv, loginFlows, pendingLogins,
                   ctx, logFile, context>>

\* interface WindowResult, of a selection that has returned
WindowResult ==
    [selectedLines |-> win.selectedLines,
     totalTokens |-> win.totalTokens,
     messageCount |-> Len(win.selectedLines),
     dateRange |-> IF win.selectedLines = << >> THEN << >>
                   ELSE <<win.selectedLines[1].date,
                          win.selectedLines[Len(win.selectedLines)].date>>,
     droppedCount |-> Len(win.lines) - Len(win.selectedLines)]

NextWin == selectMessagesForWindow \/ AddBackwards \/ ReturnWindow

SpecWin == InitWin /\ [][NextWin]_vars

\* the estimated tokens of the lines of the log from position k on
RECURSIVE SuffixTokens(_, _)
SuffixTokens(lines, k) ==
    IF k > Len(lines) THEN 0 ELSE lines[k].tokens + SuffixTokens(lines, k + 1)

\* the lines of the log from position k on, in the order of the log
LogSuffix(lines, k) == [i \in 1..(Len(lines) - k + 1) |-> lines[k + i - 1]]

\* C25: when the newest line of the log fits the budget, the window returned is
\* exactly the longest suffix of the log, in the order of the log, whose
\* estimated tokens total at most availableForHistory, and droppedCount is the
\* number of older lines left out, so messageCount + droppedCount is the
\* length of the log
C25_LongestSuffix ==
    (/\ win.pc = "returned"
     /\ win.lines # << >>
     /\ win.lines[Len(win.lines)].tokens <= availableForHistory(win.config))
      => LET n == Len(win.lines)
             fit == {k \in 1..n : SuffixTokens(win.lines, k) <= availableForHistory(win.config)}
             first == CHOOSE k \in fit : \A l \in fit : k <= l
         IN /\ WindowResult.selectedLines = LogSuffix(win.lines, first)
            /\ WindowResult.totalTokens = SuffixTokens(win.lines, first)
            /\ WindowResult.totalTokens <= availableForHistory(win.config)
            /\ WindowResult.droppedCount = first - 1
            /\ WindowResult.messageCount + WindowResult.droppedCount = n

\* a window of two lines that fill the budget exactly was returned from a log
\* of three, the oldest line dropped
C25_Witness ==
    /\ win.pc = "returned"
    /\ Len(win.lines) = 3
    /\ WindowResult.messageCount = 2
    /\ WindowResult.droppedCount = 1
    /\ WindowResult.totalTokens = availableForHistory(win.config)
    /\ WindowResult.dateRange = <<2, 3>>

\* C26: the window of a log that is not empty is never empty: when
\* availableForHistory is zero or less, or the newest line alone is over it,
\* the window still holds the newest line; the window of an empty log is
\* empty, with droppedCount 0
C26_NeverEmpty ==
    win.pc = "returned"
      => IF win.lines = << >>
         THEN WindowResult.selectedLines = << >> /\ WindowResult.droppedCount = 0
         ELSE /\ WindowResult.selectedLines # << >>
              /\ WindowResult.selectedLines[WindowResult.messageCount]
                    = win.lines[Len(win.lines)]

\* with a budget below zero and a log of two lines, the window returned holds
\* the newest line alone
C26_Witness ==
    /\ win.pc = "returned"
    /\ availableForHistory(win.config) < 0
    /\ Len(win.lines) = 2
    /\ WindowResult.selectedLines = <<win.lines[2]>>
    /\ WindowResult.droppedCount = 1

(***************************************************************************)
(* The log sync of a run.                                                  *)
(***************************************************************************)
MaxSyncEvents == 2

\* the logger appends an entry to the log of channel c: entries are written in
\* the order of their timestamp ids, and the entry of an event is written
\* before the handler is called for it
LogAppend(c, e) ==
    /\ e \in 1..(nextEv + 1)
    /\ e <= MaxSyncEvents
    /\ \A d \in logFile[c] : d < e
    /\ logFile' = [logFile EXCEPT ![c] = @ \cup {e}]
    /\ UNCHANGED <<now, envKey, credFile, channelStates, pendingAuths, nextVerifier,
                   runner, lastSync, msgs, tasks, nextEv, loginFlows, pendingLogins,
                   ctx, win, context>>

\* runs on every channel, with the logger writing to the logs
NextSync ==
    \/ \E c \in Channels, e \in 1..MaxSyncEvents : LogAppend(c, e)
    \/ \E c \in Channels, syncOk \in BOOLEAN :
          DispatchMessage(c, TxtHello, syncOk, MaxSyncEvents)
    \/ \E id \in TaskIds : SetTypingReturns(id, TRUE)
    \/ \E id \in TaskIds : SetWorkingReturns(id, TRUE)
    \/ \E id \in TaskIds : AgentReturns(id, "completed")
    \/ \E id \in TaskIds : SetWorkingDoneReturns(id, TRUE)

SpecSync == InitAuth /\ [][NextSync]_vars

\* the step in which the agent is invoked for the run of event id
AgentInvoked(id) == tasks[id].pc # "agent" /\ tasks'[id].pc = "agent"

C28_GetState ==
    /\ [](\A c \in Channels :
            LET after == getState(channelStates, c) IN
            /\ \A d \in Channels \ {c} : after[d] = channelStates[d]
            /\ IF channelStates[c].exists
               THEN after[c] = channelStates[c]
               ELSE /\ after[c].exists
                    /\ after[c].running = FALSE
                    /\ after[c].stopRequested = FALSE
                    /\ after[c].stopMessageTs = 0)
    /\ [][\A c \in Channels :
            /\ channelStates[c].exists => channelStates'[c].exists
            /\ (~channelStates[c].exists /\ channelStates'[c].exists)
                 => /\ channelStates'[c].stopRequested = FALSE
                    /\ channelStates'[c].stopMessageTs = 0
                    /\ channelStates'[c].running
                         => \E id \in TaskIds : RunStarts(id) /\ tasks'[id].ch = c
            /\ \A id \in TaskIds :
                  (/\ channelStates[c].exists
                   /\ tasks[id].pc = "unused" /\ tasks'[id].pc \in CommandPcs
                   /\ tasks'[id].ch = c)
                    => channelStates'[c] = channelStates[c]]_vars

\* a command was handled on a channel whose run is in flight: the handler got
\* the session of the run, still running
C28_Witness ==
    \E id1, id2 \in TaskIds :
        /\ id1 < id2
        /\ tasks[id1].ch = tasks[id2].ch
        /\ tasks[id1].pc = "agent"
        /\ tasks[id2].kind = "message"
        /\ tasks[id2].pc \in CommandPcs
        /\ channelStates[tasks[id1].ch].running

(***************************************************************************)
(* The acknowledgement of a stop request.                                  *)
(***************************************************************************)
\* the stop requests of channel c that found a run and requested its stop
StopsRequested(c) ==
    {id \in TaskIds : tasks[id].kind = "stop" /\ tasks[id].ch = c
                                              /\ tasks[id].result = "stopping"}

\* no handler call of channel c, for a message or for a stop, is in flight
Quiet(c) == \A id \in TaskIds : tasks[id].ch = c => ~InFlight(id)

\* C29: once a run in which a stop was requested has ended and every stop
\* handler has returned, no "_Stopping..._" acknowledgement is left that was
\* not replaced by "_Stopped_", and the stored acknowledgement handle is unset
C29_Original ==
    \A c \in Channels :
        (Quiet(c) /\ StopsRequested(c) # {})
          => /\ \A m \in 1..Len(msgs) :
                   msgs[m].ch = c => msgs[m].text # "_Stopping..._"
             /\ channelStates[c].stopMessageTs = 0

(***************************************************************************)
(* A login started while a code exchange is in flight.                     *)
(***************************************************************************)
\* the step in which the code exchange of call id finishes
ExchangeFinishes(id) ==
    /\ tasks[id].pc \in {"exchange", "callExchange"}
    /\ tasks'[id].pc # tasks[id].pc

\* C30: a code exchange that finishes removes only the pending entry it was
\* started with: an entry made by a login started on the channel while the
\* exchange was in flight is still there after the exchange has returned
C30_Original ==
    [][\A id \in TaskIds :
          LET c == tasks[id].ch IN
          (/\ ExchangeFinishes(id)
           /\ pendingAuths[c].exists
           /\ pendingAuths[c].verifier # tasks[id].verifier)
            => pendingAuths'[c] = pendingAuths[c]]_vars

(***************************************************************************)
(* A transport call of the adapter fails.                                  *)
(***************************************************************************)
\* the operations invoked after operation i
Later(i) == (i + 1)..Len(ctx.ops)

\* operation j has not run and will not: it waits, or it is rejected, and it
\* made no transport call
NeverRuns(j) ==
    /\ ctx.ops[j].state \in {"pending", "rejected"}
    /\ \A l \in 1..Len(ctx.calls) : ctx.calls[l].op # j

\* C31 as stated: once the transport call of any operation of the adapter has
\* failed, the operation is rejected and every later operation on the adapter
\* is rejected without running its body or making a transport call
C31_Original ==
    \A k \in 1..Len(ctx.calls) :
        ctx.calls[k].result = "raised"
          => /\ ctx.ops[ctx.calls[k].op].state = "rejected"
             /\ \A j \in Later(ctx.calls[k].op) : NeverRuns(j)

\* C31: once a post, an update or the deletion of the primary message has
\* failed, the operation that made the call is rejected and every operation
\* chained after it is rejected without running its body or making a
\* transport call; a thread deletion that fails inside deleteMessage and an
\* uploadFile that fails reject no other operation, and uploadFile and a
\* setTyping that does not chain are not stopped by an earlier failure
C31_PoisonedChain ==
    /\ [](\A k \in 1..Len(ctx.calls) :
            (ctx.calls[k].result = "raised"
               /\ ctx.calls[k].call \notin {"deleteThread", "upload"})
              => /\ ctx.ops[ctx.calls[k].op].state = "rejected"
                 /\ \A j \in Later(ctx.calls[k].op) :
                       ctx.ops[j].chained => NeverRuns(j))
    /\ [][\A j \in 1..Len(ctx.ops) :
            (ctx.ops[j].state = "pending" /\ ctx'.ops[j].state = "rejected")
              => /\ ctx'.messageTs = ctx.messageTs
                 /\ ctx'.threadMessageTs = ctx.threadMessageTs
                 /\ ctx'.accumulatedText = ctx.accumulatedText
                 /\ ctx'.isWorking = ctx.isWorking
                 /\ ctx'.calls = ctx.calls]_vars

\* the post of a respond raised: the respond, a setWorking(false) and a
\* deleteMessage invoked after it are rejected, the post is the only transport
\* call and the working flag is still set
C31_Witness ==
    /\ Len(ctx.ops) = 3
    /\ ctx.ops[1].kind = "respond"
    /\ ctx.ops[2].kind = "setWorking" /\ ctx.ops[2].arg = FALSE
    /\ ctx.ops[3].kind = "deleteMessage"
    /\ \A i \in 1..3 : ctx.ops[i].state = "rejected"
    /\ Len(ctx.calls) = 1
    /\ ctx.calls[1].result = "raised"
    /\ ctx.isWorking

(***************************************************************************)
(* The message the terminal edit is applied to.                            *)
(***************************************************************************)
\* the stop requests that posted the acknowledgement with handle ts
PostedBy(ts) ==
    {sid \in TaskIds : tasks[sid].kind = "stop" /\ tasks[sid].messageTs = ts}

\* C32: the "_Stopped_" edit at the end of a run is applied only to an
\* acknowledgement posted by a stop request made during that run, never to a
\* handle left by an earlier run or stop request
C32_Original ==
    \A id \in TaskIds :
        tasks[id].pc = "stoppedEdit"
          => \E sid \in PostedBy(tasks[id].stoppedTs) :
                sid > id /\ tasks[sid].result = "stopping"

(***************************************************************************)
(* A logout while a token request is in flight.                            *)
(***************************************************************************)
\* call id, a token refresh or a code exchange, awaits the token endpoint
TokenRequestInFlight(id) == tasks[id].pc \in {"refreshFetch", "exchange", "callExchange"}

\* a logout command was handled after call id had started
LogoutRanSince(id) == \E l \in TaskIds : l > id /\ tasks[l].pc = "logoutPost"

\* C33: after a logout the working directory has no stored credential until a
\* login started after the logout completes: a token refresh or a code
\* exchange that was in flight when the logout ran stores nothing when it
\* returns
C33_Original ==
    [][\A id \in TaskIds :
          (/\ TokenRequestInFlight(id)
           /\ LogoutRanSince(id)
           /\ tasks'[id].pc # tasks[id].pc)
            => /\ credFile' = credFile
               /\ ~isLoggedIn(credFile')]_vars

(***************************************************************************)
(* Logins on several channels.                                             *)
(***************************************************************************)
MaxPurgeEvents == 3

\* /login and /logout on every channel, with the clock
NextPurge ==
    \/ Tick
    \/ \E c \in Channels, raw \in {TxtLogin, TxtLogout} :
          DispatchMessage(c, raw, TRUE, MaxPurgeEvents)
    \/ \E id \in TaskIds : CommandPostReturns(id)

SpecPurge == InitAuth /\ [][NextPurge]_vars

\* the step in which a login is started on channel c
LoginStarts(c) ==
    \E id \in TaskIds : /\ tasks[id].pc = "unused"
                         /\ tasks'[id].pc = "loginPost"
                         /\ tasks'[id].ch = c

\* C34: starting a login on a channel removes the pending entries of the
\* other channels that are older than the timeout, leaves every other pending
\* entry of the other channels as it is, and creates or replaces the entry of
\* the starting channel only
C34_StartLoginPurges ==
    [][\A c \in Channels :
          LoginStarts(c)
            => /\ pendingAuths'[c].exists
               /\ pendingAuths'[c].createdAt = now
               /\ pendingAuths'[c].verifier = nextVerifier
               /\ \A q \in Channels \ {c} :
                     pendingAuths'[q] =
                        IF pendingAuths[q].exists
                             /\ now - pendingAuths[q].createdAt > AUTH_TIMEOUT_MS
                        THEN NoPending
                        ELSE pendingAuths[q]]_vars

\* a login started on D2 after the timeout of the login of D1 had passed: the
\* entry of D1 is gone, the entry of D2 is pending
C34_Witness ==
    \E id \in TaskIds \ {1} :
        /\ tasks[1].ch = "D1" /\ tasks[1].kind = "message"
        /\ tasks[id].ch = "D2" /\ tasks[id].pc = "loginPost"
        /\ now = AUTH_TIMEOUT_MS + 1
        /\ ~pendingAuths["D1"].exists
        /\ pendingAuths["D2"].exists
        /\ pendingAuths["D2"].verifier = 2

====
